---- MODULE Spec2Model ----
(***************************************************************************)
(* State-machine model of obspy/fdsn/download_helpers/download_status.py:   *)
(* the TimeInterval / Channel / Station data model and the                  *)
(* ClientDownloadHelper that discovers availability, assigns file names     *)
(* and statuses, plans and runs the chunked MiniSEED download and checks    *)
(* the downloaded files.                                                    *)
(*                                                                          *)
(* Times are whole seconds, file sizes whole bytes.  A Python dict is a     *)
(* sequence of values in insertion order, the key of a Station being        *)
(* <<network, station>>.  A file path is a record [dir, name]; the disk is  *)
(* the set of existing directories plus a function from the existing paths  *)
(* to their content [size, readable, traces], traces being the durations of *)
(* the traces obspy.read returns for a readable file.                       *)
(***************************************************************************)
EXTENDS Integers, Sequences, FiniteSets, TLC

VARIABLES
    client,        \* self.client / self.client_name
    restrictions,  \* self.restrictions
    domain,        \* self.domain
    mseed_storage, \* self.mseed_storage
    stations,      \* self.stations
    is_availability_reliable,
    served,        \* the content the data centre answers a bulk request with
    files,         \* the data files on disk: path -> content
    dirs,          \* the directories on disk
    pc,            \* where the calling thread is: "idle" or inside download_mseed
    chunks,        \* download_mseed: the planned chunks
    chunk_state,   \* download_mseed: per chunk "pending", "running", "done"
                   \* (the bulk download returned) or "failed" (it raised)
    pool_size,     \* download_mseed: number of threads of the ThreadPool
    chunk_size,    \* download_mseed: the chunk_size_in_mb argument of the call
    checked,       \* outcome of the last run of _check_downloaded_data
    result,        \* outcome of the last finished call: return value or exception
    last,          \* name of the operation that took the last step
    n_downloads,   \* number of download_mseed calls made so far
    station_answer, \* get_availability: what client.get_stations answered in
                   \* the last step, if that step queried it
    listed_ids,    \* the ids given to the last discard_stations
    routers,       \* CombinedRoutingClient: self.routers
    method_name,   \* _combine_data: the method asked for
    router,        \* _combine_data: position of the loop in self.routers
    routes,        \* _combine_data: the dict routes
    data_centers,  \* _combine_data: the list data_centers
    transfer_kwargs, \* _combine_data: the local _kwargs
    transfers,     \* the real calls of _download_parallel made by the call
    answers,       \* what the routers asked so far by the call answered
    combined,      \* outcome of the last _combine_data call
    heap,          \* the TimeInterval objects made so far, by identity
    held,          \* per stored station and channel, the identities of the
                   \* objects of its list intervals
    provenance,    \* the records of the provenance document of a trace
    entity_id,     \* the identifier of the entity of the trace as it is
    stats,         \* start and end of the trace
    operation,     \* the function name of the last processing step
    arguments,     \* the arguments of the last processing step
    recorded,      \* outcome of the last add_processing_step_to_prov
    n_steps        \* processing steps so far

helper_vars == <<client, restrictions, domain, mseed_storage, stations,
                 is_availability_reliable, served, files, dirs, pc, chunks,
                 chunk_state, pool_size, chunk_size, checked, result, last,
                 n_downloads, station_answer, listed_ids>>

routing_vars == <<routers, method_name, router, routes, data_centers,
                  transfer_kwargs, transfers, answers, combined>>

\* The variables an action of one object leaves alone whatever it does:
\* those of the other objects.
object_vars == <<heap, held>>

prov_vars ==
    <<provenance, entity_id, stats, operation, arguments, recorded, n_steps>>

outside_helper == <<routing_vars, object_vars, prov_vars>>
outside_routing == <<helper_vars, object_vars, prov_vars>>
outside_objects == <<helper_vars, routing_vars, prov_vars>>
outside_prov == <<helper_vars, routing_vars, object_vars>>

vars == <<helper_vars, routing_vars, object_vars, prov_vars>>

-----------------------------------------------------------------------------
(* Bounds of the model.                                                     *)

\* download_mseed is called at most this many times in one behaviour.
MaxDownloads == 1

\* The same for the behaviours in which a request is issued again.
MaxResumeDownloads == 2

\* A CombinedRoutingClient has at most this many routers.
MaxRouters == 2

\* At most this many TimeInterval objects are made in one behaviour.
MaxObjects == 9

\* At most this many processing steps are applied to a trace.
MaxProvSteps == 2

-----------------------------------------------------------------------------
(* Generic helpers.                                                         *)

RECURSIVE SeqSum(_)
SeqSum(s) == IF s = <<>> THEN 0 ELSE Head(s) + SeqSum(Tail(s))

RECURSIVE Flatten(_)
Flatten(ss) == IF ss = <<>> THEN <<>> ELSE Head(ss) \o Flatten(Tail(ss))

SeqMap(F(_), s) == [i \in 1..Len(s) |-> F(s[i])]

Range(s) == {s[i] : i \in 1..Len(s)}

-----------------------------------------------------------------------------
(* The data model.                                                          *)

\* STATUS = Enum([...])
STATUS == [NONE |-> "none", NEEDS_DOWNLOADING |-> "needs_downloading",
           DOWNLOADED |-> "downloaded", IGNORE |-> "ignore",
           EXISTS |-> "exists", DOWNLOAD_FAILED |-> "download_failed",
           DOWNLOAD_REJECTED |-> "download_rejected"]

\* The values a TimeInterval's filename takes: None, True (the resolver's
\* "skip this interval" answer) or a path.
NoneFile == [kind |-> "None"]
TrueFile == [kind |-> "True"]
Path(dir, name) == [kind |-> "path", dir |-> dir, name |-> name]

\* TimeInterval.__init__: filename defaults to None, status to STATUS.NONE.
TimeInterval(start, end) ==
    [start |-> start, end |-> end, filename |-> NoneFile,
     status |-> STATUS.NONE]

\* Channel.__init__
Channel(location, channel, intervals) ==
    [location |-> location, channel |-> channel, intervals |-> intervals]

\* Station.__init__ (the StationXML file name and status are not used by the
\* operations modelled here and keep their defaults).
Station(network, station, in_domain, channels) ==
    [network |-> network, station |-> station, in_domain |-> in_domain,
     channels |-> channels]

StationKey(sta) == <<sta.network, sta.station>>

\* self.stations[key] = value
DictSet(d, value) ==
    IF \E i \in 1..Len(d) : StationKey(d[i]) = StationKey(value)
    THEN [i \in 1..Len(d) |->
             IF StationKey(d[i]) = StationKey(value) THEN value ELSE d[i]]
    ELSE Append(d, value)

-----------------------------------------------------------------------------
(* The environment: the configurations a helper is constructed with, the    *)
(* inventories the station service answers with, the disk before the first  *)
(* call, and the contents the bulk download writes.                         *)

BHZ == <<"B", "H", "Z">>
BHN == <<"B", "H", "N">>
HHZ == <<"H", "H", "Z">>
LHZ == <<"L", "H", "Z">>
xhz == <<"x", "h", "z">>

\* client_name and the parameters client.services["station"] advertises.
Clients ==
    { [name |-> "RESIF", station_service |-> {"includeavailability"}],
      [name |-> "IRIS",  station_service |-> {"matchtimeseries"}],
      [name |-> "ORFEUS", station_service |-> {"includeavailability"}],
      [name |-> "local", station_service |-> {}] }

\* str.lower() on the client names in use.
Lower(name) ==
    CASE name = "RESIF"  -> "resif"
      [] name = "IRIS"   -> "iris"
      [] name = "ORFEUS" -> "orfeus"
      [] OTHER           -> name

\* Restrictions: the requested window, the sub-windows iterating over the
\* object yields (one of a day, or two), the QC options (minimum_length in
\* percent of the interval, 0 when not configured) and the two priority
\* lists, each pattern given as the set of codes it matches.
RestrictionsSet ==
    { [starttime |-> 0, endtime |-> w[Len(w)][2],
       intervals |-> w,
       reject_channels_with_gaps |-> g, minimum_length |-> m,
       channel_priorities |-> <<{HHZ}, {BHZ, BHN}, {LHZ, xhz}>>,
       location_priorities |-> <<{""}, {"00"}>>] :
      g \in BOOLEAN, m \in {0, 50},
      w \in {<<<<0, 86400>>>>, <<<<0, 86400>>, <<86400, 172800>>>>} }

\* Domain: whether is_in_domain is implemented (stations are then filtered
\* after the query); a station of an inventory carries the predicate's value
\* at its coordinates.
Domains == { [needs_filtering |-> f] : f \in BOOLEAN }

\* mseed_storage: a path template, or a callable that answers True for the
\* BHN channels and for every sub-window but the first, and a path otherwise.
Storages == {"template", "callable"}

NoAvailability == [present |-> FALSE]
Availability(start, end) == [present |-> TRUE, start |-> start, end |-> end]

InvChannel(loc, code, start_date, end_date, da) ==
    [location_code |-> loc, code |-> code, start_date |-> start_date,
     end_date |-> end_date, data_availability |-> da]

InvStation(code, in_domain, chans) ==
    [code |-> code, in_domain |-> in_domain, channels |-> chans]

InvNetwork(code, stas) == [code |-> code, stations |-> stas]

Full == Availability(0, 172800)

\* One station whose channels exercise every filter, one station outside the
\* domain.
InventoryA ==
    << InvNetwork("XX", <<
         InvStation("S1", TRUE, <<
            InvChannel("",   BHZ, 0, 172800, Full),
            InvChannel("",   HHZ, 3600, 172800, Full),
            InvChannel("",   LHZ, 0, 172800, Full),
            InvChannel("00", BHN, 0, 172800, Full),
            InvChannel("",   BHN, 0, 172800, NoAvailability) >>),
         InvStation("S9", FALSE, <<
            InvChannel("", BHZ, 0, 172800, Full) >>) >>) >>

\* Two stations, one channel each, of different band codes.
InventoryB ==
    << InvNetwork("XX", <<
         InvStation("S1", TRUE, << InvChannel("", BHZ, 0, 172800, Full) >>),
         InvStation("S2", TRUE, <<
            InvChannel("", HHZ, 0, 172800, Availability(0, 86400)),
            InvChannel("00", xhz, 0, 172800, Full) >>) >>) >>

\* One station whose inventory lists channel BHZ twice, in two epochs that
\* both cover the request.
InventoryC ==
    << InvNetwork("XX", <<
         InvStation("S1", TRUE, <<
            InvChannel("", BHZ, 0, 172800, Full),
            InvChannel("", BHZ, 0, 259200, Full) >>) >>) >>

Inventories == {InventoryA, InventoryB, InventoryC}

\* Content of a data file: its size in bytes, whether obspy.read can parse
\* it and the durations of the traces it parses to.
Content(size, readable, traces) ==
    [size |-> size, readable |-> readable, traces |-> traces]

GoodFile   == Content(4, TRUE, <<86400>>)
ShortFile  == Content(2, TRUE, <<34560>>)
GappyFile  == Content(3, TRUE, <<20000, 30000, 30000>>)
EmptyFile  == Content(0, FALSE, <<>>)
\* A non-empty file obspy.read raises on, and one it reads without a trace.
CorruptFile == Content(5, FALSE, <<>>)
NoTraceFile == Content(1, TRUE, <<>>)

Contents ==
    {GoodFile, ShortFile, GappyFile, EmptyFile, CorruptFile, NoTraceFile}

DataDir(network, station) == <<"data", network, station>>

\* The disks a helper can start on: nothing, or one data file left by an
\* earlier run.
InitialDisks ==
    { <<>>,
      [p \in {Path(DataDir("XX", "S1"), <<"", BHZ, 0, 86400>>)}
          |-> GoodFile] }

\* The combinations of the above a helper is constructed with.
ClientSetups ==
    {<<"RESIF", TRUE, 1>>, <<"IRIS", FALSE, 1>>, <<"ORFEUS", TRUE, 2>>,
     <<"local", FALSE, 1>>}

DataSetups ==
    {<<FALSE, 0, GoodFile>>, <<FALSE, 50, GoodFile>>, <<TRUE, 50, ShortFile>>,
     <<TRUE, 0, GappyFile>>, <<FALSE, 0, EmptyFile>>,
     <<TRUE, 50, CorruptFile>>, <<FALSE, 50, NoTraceFile>>}

StorageSetups ==
    {<<"template", TRUE>>, <<"template", FALSE>>, <<"callable", FALSE>>}

-----------------------------------------------------------------------------
(* Outcomes of a call.                                                      *)

PyNone == [type |-> "None"]
PyList(items) == [type |-> "list", items |-> items]
PyTuple(items) == [type |-> "tuple", items |-> items]

Return(value) == [kind |-> "return", value |-> value]
Raise(exc) == [kind |-> "raise", exc |-> exc]

-----------------------------------------------------------------------------
(* ClientDownloadHelper.get_availability                                    *)

\* OVERWRITE_CAPABILITIES = {"resif": None}
OVERWRITE_CAPABILITIES == [n \in {"resif"} |-> "None"]

\* The capability branch: the availability arguments added to the query and
\* the reliability flag, or NotImplementedError for an unknown overwrite.
availability_arguments(c) ==
    IF Lower(c.name) \in DOMAIN OVERWRITE_CAPABILITIES
    THEN LET cap == OVERWRITE_CAPABILITIES[Lower(c.name)] IN
         CASE cap = "None" -> [raises |-> FALSE, reliable |-> FALSE, args |-> {}]
           [] cap = "matchtimeseries" ->
                [raises |-> FALSE, reliable |-> TRUE, args |-> {"matchtimeseries"}]
           [] cap = "includeavailability" ->
                [raises |-> FALSE, reliable |-> TRUE, args |-> {"includeavailability"}]
           [] OTHER -> [raises |-> TRUE, reliable |-> FALSE, args |-> {}]
    ELSE IF "matchtimeseries" \in c.station_service
         THEN [raises |-> FALSE, reliable |-> TRUE, args |-> {"matchtimeseries"}]
    ELSE IF "includeavailability" \in c.station_service
         THEN [raises |-> FALSE, reliable |-> TRUE, args |-> {"includeavailability"}]
    ELSE [raises |-> FALSE, reliable |-> FALSE, args |-> {}]

\* intervals = [TimeInterval(start=_i[0], end=_i[1]) for _i in restrictions]
requested_intervals(r) ==
    [i \in 1..Len(r.intervals) |->
        TimeInterval(r.intervals[i][1], r.intervals[i][2])]

\* channel_is_kept without the test of the availability.
channel_is_kept_by_epoch(channel, r, args) ==
    ~(channel.start_date > r.starttime \/ channel.end_date < r.endtime)

\* The two tests a channel of the inventory must pass: its epoch covers the
\* requested window and, with includeavailability, so does its availability.
channel_is_kept(channel, r, args) ==
    /\ ~(channel.start_date > r.starttime \/ channel.end_date < r.endtime)
    /\ ("includeavailability" \in args) =>
          /\ channel.data_availability.present
          /\ ~(\/ channel.data_availability.start > r.starttime
               \/ channel.data_availability.end < r.endtime)

\* getattr(x, key) for the two attributes of a Channel used as a key.
getattr(x, key) == IF key = "location" THEN x.location ELSE x.channel

\* utils.filter_channel_priority: the channels matching the first pattern of
\* the priority list that matches any channel, in their order; none when no
\* pattern matches.  key names the attribute compared.
RECURSIVE filter_channel_priority(_, _, _)
filter_channel_priority(channels, key, priorities) ==
    IF priorities = <<>> THEN <<>>
    ELSE LET hit == SelectSeq(channels,
                              LAMBDA c : getattr(c, key) \in Head(priorities))
         IN IF hit # <<>> THEN hit
            ELSE filter_channel_priority(channels, key, Tail(priorities))

get_loc(x) == x.location

\* The location codes in string order, for sorted(channels, key=get_loc).
LocationOrder == <<"", "00", "10">>

\* itertools.groupby(sorted(channels, key=get_loc), get_loc): the groups in
\* the order of their location code, each in the channels' order.
groups_by_location(channels) ==
    SelectSeq([i \in 1..Len(LocationOrder) |->
                  SelectSeq(channels, LAMBDA c : get_loc(c) = LocationOrder[i])],
              LAMBDA g : g # <<>>)

\* station_channels without the two priority filters.
station_channels_unfiltered(station, r, args) ==
    LET kept == SelectSeq(station.channels,
                          LAMBDA c : channel_is_kept(c, r, args))
    IN [i \in 1..Len(kept) |->
           Channel(kept[i].location_code, kept[i].code, requested_intervals(r))]

\* The channels get_availability keeps for one station of the inventory.
station_channels(station, r, args) ==
    LET kept == SelectSeq(station.channels,
                          LAMBDA c : channel_is_kept(c, r, args))
        channels == [i \in 1..Len(kept) |->
                        Channel(kept[i].location_code, kept[i].code,
                                requested_intervals(r))]
        groups == groups_by_location(channels)
        filtered_channels ==
            Flatten([i \in 1..Len(groups) |->
                       filter_channel_priority(groups[i], "channel",
                                               r.channel_priorities)])
    IN filter_channel_priority(filtered_channels, "location",
                               r.location_priorities)

\* for network in inv: for station in network: the stations in order, each
\* with its network code.
inventory_stations(inv) ==
    Flatten([n \in 1..Len(inv) |->
               [i \in 1..Len(inv[n].stations) |->
                   [network |-> inv[n].code, station |-> inv[n].stations[i]]]])

\* The loop over the inventory: self.stations after it.
RECURSIVE store_stations(_, _, _, _, _)
store_stations(d, todo, r, dom, args) ==
    IF todo = <<>> THEN d
    ELSE LET network == Head(todo).network
             station == Head(todo).station
             channels == station_channels(station, r, args)
             skip == \/ (dom.needs_filtering /\ ~station.in_domain)
                     \/ channels = <<>>
         IN store_stations(
              IF skip THEN d
              ELSE DictSet(d, Station(network, station.code,
                                      station.in_domain, channels)),
              Tail(todo), r, dom, args)

\* client.get_stations(**arguments): the inventory, or one of utils.ERRORS.
StationAnswers ==
    {[error |-> TRUE, message |-> "No data available for request."],
     [error |-> TRUE, message |-> "Service temporarily unavailable"]}
    \cup {[error |-> FALSE, inv |-> i] : i \in Inventories}

\* No query of the station service in this step.
NoAnswer == [asked |-> FALSE]

\* self.stations after the query has raised one of utils.ERRORS, emptied.
stations_after_cleared(answer, d, r, dom, args) ==
    IF answer.error THEN <<>>
    ELSE store_stations(d, inventory_stations(answer.inv), r, dom, args)

\* self.stations after the query: as it was when it raised one of
\* utils.ERRORS, otherwise with the stations of the inventory stored.
stations_after(answer, d, r, dom, args) ==
    IF answer.error THEN d
    ELSE store_stations(d, inventory_stations(answer.inv), r, dom, args)

GetAvailability ==
    /\ pc = "idle"
    /\ \E answer \in StationAnswers :
         LET a == availability_arguments(client) IN
         IF a.raises
         THEN /\ result' = Raise("NotImplementedError")
              /\ station_answer' = NoAnswer
              /\ listed_ids' = <<>>
              /\ UNCHANGED <<stations, is_availability_reliable>>
         ELSE /\ is_availability_reliable' = a.reliable
              /\ result' = Return(PyNone)
              /\ station_answer' = answer
              /\ listed_ids' = <<>>
              /\ stations' = stations_after(answer, stations, restrictions,
                                            domain, a.args)
    /\ last' = "get_availability"
    /\ UNCHANGED outside_helper
    /\ UNCHANGED <<client, restrictions, domain, mseed_storage, served,
                   checked, files, dirs, pc, chunks, chunk_state, pool_size,
                   chunk_size, n_downloads>>

-----------------------------------------------------------------------------
(* Station.prepare_mseed_download, ClientDownloadHelper.prepare_mseed_download *)

\* utils.get_mseed_filename(mseed_storage, network, station, location,
\* channel, starttime, endtime): the path of the interval's file, or True.
get_mseed_filename(storage, network, station, location, channel, start, end) ==
    IF storage = "callable" /\ (channel = BHN \/ start > 0)
    THEN TrueFile
    ELSE Path(DataDir(network, station), <<location, channel, start, end>>)

\* os.path.exists(filename) for a data file.
path_exists(disk, filename) == filename \in DOMAIN disk

\* os.path.dirname(filename)
dirname(filename) == filename.dir

\* interval_status with an existing file reported as DOWNLOADED.
interval_status_downloaded(filename, disk) ==
    IF filename = TrueFile THEN STATUS.IGNORE
    ELSE IF path_exists(disk, filename) THEN STATUS.DOWNLOADED
    ELSE STATUS.NEEDS_DOWNLOADING

\* interval_status with the existence test made on the directory of the file:
\* a file name that shares its directory with an existing file is EXISTS.
interval_status_by_dir(filename, disk) ==
    IF filename = TrueFile THEN STATUS.IGNORE
    ELSE IF \E p \in DOMAIN disk : dirname(p) = dirname(filename)
    THEN STATUS.EXISTS
    ELSE STATUS.NEEDS_DOWNLOADING

\* interval_status without the test for an existing file.
interval_status_refetch(filename, disk) ==
    IF filename = TrueFile THEN STATUS.IGNORE ELSE STATUS.NEEDS_DOWNLOADING

\* The if / elif / else of Station.prepare_mseed_download.
interval_status(filename, disk) ==
    IF filename = TrueFile THEN STATUS.IGNORE
    ELSE IF path_exists(disk, filename) THEN STATUS.EXISTS
    ELSE STATUS.NEEDS_DOWNLOADING

\* prepare_interval with the existence test made on the file name the
\* interval had before the call.
prepare_interval_stale(sta, cha, interval, storage, disk) ==
    LET filename == get_mseed_filename(storage, sta.network, sta.station,
                                       cha.location, cha.channel,
                                       interval.start, interval.end)
    IN [interval EXCEPT
          !.filename = filename,
          !.status = IF filename = TrueFile THEN STATUS.IGNORE
                     ELSE IF path_exists(disk, interval.filename)
                     THEN STATUS.EXISTS
                     ELSE STATUS.NEEDS_DOWNLOADING]

\* One pass of the inner loop: the interval with its filename and status.
prepare_interval(sta, cha, interval, storage, disk) ==
    LET filename == get_mseed_filename(storage, sta.network, sta.station,
                                       cha.location, cha.channel,
                                       interval.start, interval.end)
    IN [interval EXCEPT !.filename = filename,
                        !.status = interval_status(filename, disk)]

\* Station.prepare_mseed_download: the station after the two loops.
station_prepare_mseed_download(sta, storage, disk) ==
    [sta EXCEPT !.channels =
        [c \in 1..Len(sta.channels) |->
            [sta.channels[c] EXCEPT !.intervals =
                [i \in 1..Len(sta.channels[c].intervals) |->
                    prepare_interval(sta, sta.channels[c],
                                     sta.channels[c].intervals[i],
                                     storage, disk)]]]]

\* Every interval of every channel of every station, in iteration order
\* (for sta in self.stations.values(): for cha in sta.channels:
\* for interval in cha.intervals), with its station and channel.
all_intervals(d) ==
    Flatten([s \in 1..Len(d) |->
       Flatten([c \in 1..Len(d[s].channels) |->
          [i \in 1..Len(d[s].channels[c].intervals) |->
              [sta |-> d[s], cha |-> d[s].channels[c],
               interval |-> d[s].channels[c].intervals[i]]]])])

\* os.makedirs(os.path.dirname(filename)) for the intervals that need
\* downloading: the directories afterwards.
made_dirs(d, existing) ==
    existing \cup
    { dirname(e.interval.filename) :
        e \in { x \in Range(all_intervals(d)) :
                  x.interval.status = STATUS.NEEDS_DOWNLOADING } }

PrepareMseedDownload ==
    /\ pc = "idle"
    /\ stations' = [s \in 1..Len(stations) |->
                      station_prepare_mseed_download(stations[s],
                                                     mseed_storage, files)]
    /\ dirs' = made_dirs(stations', dirs)
    /\ result' = Return(PyNone)
    /\ last' = "prepare_mseed_download"
    /\ station_answer' = NoAnswer
    /\ listed_ids' = <<>>
    /\ UNCHANGED outside_helper
    /\ UNCHANGED <<client, restrictions, domain, mseed_storage, served,
                   checked, is_availability_reliable, files, pc, chunks,
                   chunk_state, pool_size, chunk_size, n_downloads>>

-----------------------------------------------------------------------------
(* ClientDownloadHelper.download_mseed: planning the chunks                 *)

\* str.upper() on one character.
Upper(ch) ==
    LET lower == <<"a","b","c","d","e","f","g","h","i","j","k","l","m",
                   "n","o","p","q","r","s","t","u","v","w","x","y","z">>
        upper == <<"A","B","C","D","E","F","G","H","I","J","K","L","M",
                   "N","O","P","Q","R","S","T","U","V","W","X","Y","Z">>
    IN IF \E i \in 1..26 : lower[i] = ch
       THEN upper[CHOOSE i \in 1..26 : lower[i] = ch]
       ELSE ch

\* channel_sampling_rate, each rate in Hz as <<numerator, denominator>>.
channel_sampling_rate ==
    [b \in {"F","G","D","C","E","S","H","B","M","L","V","U","R","P","T","Q",
            "A","O"} |->
       CASE b \in {"F", "G", "A", "O"} -> <<5000, 1>>
         [] b \in {"D", "C"} -> <<1000, 1>>
         [] b \in {"E", "H"} -> <<250, 1>>
         [] b \in {"S", "B"} -> <<80, 1>>
         [] b = "M" -> <<10, 1>>
         [] b = "L" -> <<1, 1>>
         [] b = "V" -> <<1, 10>>
         [] b = "U" -> <<1, 100>>
         [] b = "R" -> <<1, 1000>>
         [] b = "P" -> <<1, 10000>>
         [] b = "T" -> <<1, 100000>>
         [] b = "Q" -> <<1, 1000000>>]

\* The sampling rate estimated for a channel from its band code, 1.0 for a
\* band code that is not in the table.
estimated_sampling_rate(cha) ==
    LET band_code == Upper(cha.channel[1])
    IN IF band_code \in DOMAIN channel_sampling_rate
       THEN channel_sampling_rate[band_code]
       ELSE <<1, 1>>

\* sr * duration, the estimated number of samples of an interval, as
\* <<numerator, denominator>>.
estimated_samples(e) ==
    LET sr == estimated_sampling_rate(e.cha)
    IN <<sr[1] * (e.interval.end - e.interval.start), sr[2]>>

RatAdd(a, b) == IF a[2] = b[2] THEN <<a[1] + b[1], a[2]>>
                ELSE <<a[1] * b[2] + b[1] * a[2], a[2] * b[2]>>

\* curr_chunks_mb >= chunk_size_in_mb, where curr_chunks_mb is
\* samples * 4.0 / 3.0 / 1024.0 / 1024.0.
reaches_chunk_size(samples, chunk_size_in_mb) ==
    samples[1] * 4 >= chunk_size_in_mb * 3 * 1024 * 1024 * samples[2]

\* The tuple appended to chunks_curr for an interval.
chunk_entry(e) ==
    <<e.sta.network, e.sta.station, e.cha.location, e.cha.channel,
      e.interval.start, e.interval.end, e.interval.filename>>

\* chunk_is_full with the test made before the interval is added.
chunk_is_full_before(curr, e, chunk_size_in_mb) ==
    reaches_chunk_size(curr, chunk_size_in_mb)

\* curr_chunks_mb += ...; if curr_chunks_mb >= chunk_size_in_mb: the test
\* made after the interval e has been added to a chunk of `curr` samples.
chunk_is_full(curr, e, chunk_size_in_mb) ==
    reaches_chunk_size(RatAdd(curr, estimated_samples(e)), chunk_size_in_mb)

\* close_chunks without the trailing chunk.
close_chunks_dropping(done, chunks_curr) == done

\* if chunks_curr: chunks.append(chunks_curr), after the loop.
close_chunks(done, chunks_curr) ==
    IF chunks_curr # <<>> THEN Append(done, chunks_curr) ELSE done

\* The loop that splits the intervals into chunks: todo are the intervals
\* still to visit, done the closed chunks, chunks_curr the open chunk and
\* curr its estimated samples.
RECURSIVE split_into_chunks(_, _, _, _, _)
split_into_chunks(todo, done, chunks_curr, curr, chunk_size_in_mb) ==
    IF todo = <<>>
    THEN close_chunks(done, chunks_curr)
    ELSE LET e == Head(todo) IN
         IF e.interval.status # STATUS.NEEDS_DOWNLOADING
         THEN split_into_chunks(Tail(todo), done, chunks_curr, curr,
                                chunk_size_in_mb)
         ELSE LET grown == Append(chunks_curr, chunk_entry(e))
              IN IF chunk_is_full(curr, e, chunk_size_in_mb)
                 THEN split_into_chunks(Tail(todo), Append(done, grown),
                                        <<>>, <<0, 1>>, chunk_size_in_mb)
                 ELSE split_into_chunks(Tail(todo), done, grown,
                                        RatAdd(curr, estimated_samples(e)),
                                        chunk_size_in_mb)

plan_chunks(d, chunk_size_in_mb) ==
    split_into_chunks(all_intervals(d), <<>>, <<>>, <<0, 1>>, chunk_size_in_mb)

\* The arguments download_mseed is called with.
ChunkSizes == {10, 25}
ThreadCounts == {1, 5}

Min(a, b) == IF a < b THEN a ELSE b

\* download_mseed up to the start of the thread pool: the chunks are planned;
\* without a chunk the call returns [] at once.
download_mseed(max_calls) ==
    /\ pc = "idle"
    /\ n_downloads < max_calls
    /\ n_downloads' = n_downloads + 1
    /\ \E chunk_size_in_mb \in ChunkSizes, threads_per_client \in ThreadCounts :
         LET planned == plan_chunks(stations, chunk_size_in_mb) IN
         IF planned = <<>>
         THEN /\ pc' = "idle"
              /\ result' = Return(PyList(<<>>))
              /\ UNCHANGED <<chunks, chunk_state, pool_size, chunk_size>>
         ELSE /\ pc' = "downloading"
              /\ chunks' = planned
              /\ chunk_size' = chunk_size_in_mb
              /\ pool_size' = Min(threads_per_client, Len(planned))
              /\ chunk_state' = [c \in 1..Len(planned) |-> "pending"]
              /\ UNCHANGED result
    /\ last' = "download_mseed"
    /\ station_answer' = NoAnswer
    /\ listed_ids' = <<>>
    /\ UNCHANGED outside_helper
    /\ UNCHANGED <<client, restrictions, domain, mseed_storage, served,
                   checked, stations, is_availability_reliable, files, dirs>>

DownloadMseed == download_mseed(MaxDownloads)

-----------------------------------------------------------------------------
(* ClientDownloadHelper.download_mseed: the thread pool                     *)

Running == {c \in 1..Len(chunks) : chunk_state[c] = "running"}
\* The chunks a thread has taken, whether or not their fetch has ended.
Finished_or_running == {c \in 1..Len(chunks) : chunk_state[c] # "pending"}
Finished == {c \in 1..Len(chunks) : chunk_state[c] \notin {"pending", "running"}}

\* A chunk is taken whether or not a thread of the pool is free.
StartFetch_unbounded(c) ==
    /\ pc = "downloading"
    /\ chunk_state[c] = "pending"
    /\ \A b \in 1..(c - 1) : chunk_state[b] # "pending"
    /\ chunk_state' = [chunk_state EXCEPT ![c] = "running"]
    /\ last' = "star_download_mseed"
    /\ station_answer' = NoAnswer
    /\ listed_ids' = <<>>
    /\ UNCHANGED outside_helper
    /\ UNCHANGED <<client, restrictions, domain, mseed_storage, served,
                   checked, stations, is_availability_reliable, files, dirs,
                   pc, chunks, pool_size, chunk_size, result, n_downloads>>

\* A thread of the pool takes the next chunk of the task queue pool.map
\* filled in the order of the chunks.
StartFetch(c) ==
    /\ pc = "downloading"
    /\ chunk_state[c] = "pending"
    /\ \A b \in 1..(c - 1) : chunk_state[b] # "pending"
    /\ Cardinality(Running) < pool_size
    /\ chunk_state' = [chunk_state EXCEPT ![c] = "running"]
    /\ last' = "star_download_mseed"
    /\ station_answer' = NoAnswer
    /\ listed_ids' = <<>>
    /\ UNCHANGED outside_helper
    /\ UNCHANGED <<client, restrictions, domain, mseed_storage, served,
                   checked, stations, is_availability_reliable, files, dirs,
                   pc, chunks, pool_size, chunk_size, result, n_downloads>>

\* utils.download_and_split_mseed_bulk(client, client_name, chunk): the disk
\* after the call has written `content` to the files of the entries
\* `written` of the chunk.
download_and_split_mseed_bulk(disk, chunk, written, content) ==
    [p \in DOMAIN disk \cup {chunk[i][7] : i \in written} |->
        IF p \in {chunk[i][7] : i \in written} THEN content ELSE disk[p]]

\* How a bulk download ends: it returns, or raises one of utils.ERRORS, which
\* star_download_mseed catches, logs (at a level that depends on the message)
\* and turns into an empty result.
FetchOutcomes ==
    {[raised |-> FALSE, message |-> ""],
     [raised |-> TRUE, message |-> "No data available for request."],
     [raised |-> TRUE, message |-> "Service temporarily unavailable"]}

\* star_download_mseed(chunk) ends; the files it wrote are on disk.
FinishFetch(c) ==
    /\ pc = "downloading"
    /\ chunk_state[c] = "running"
    /\ \E outcome \in FetchOutcomes, written \in SUBSET (1..Len(chunks[c])) :
         /\ chunk_state' = [chunk_state EXCEPT ![c] =
                               IF outcome.raised THEN "failed" ELSE "done"]
         /\ files' = download_and_split_mseed_bulk(files, chunks[c], written,
                                                   served)
    /\ last' = "star_download_mseed"
    /\ station_answer' = NoAnswer
    /\ listed_ids' = <<>>
    /\ UNCHANGED outside_helper
    /\ UNCHANGED <<client, restrictions, domain, mseed_storage, served,
                   checked, stations, is_availability_reliable, dirs, pc,
                   chunks, pool_size, chunk_size, result, n_downloads>>

-----------------------------------------------------------------------------
(* ClientDownloadHelper._check_downloaded_data                              *)

\* Iterating a dict (for sta in self.stations) yields its keys, here the
\* (network, station) tuples the stations are stored under; the two other
\* loops over the stations iterate self.stations.values().
dict_iter(d) ==
    [i \in 1..Len(d) |-> [type |-> "tuple", items |-> StationKey(d[i])]]

\* utils.safe_delete(filename): the disk without the file.
safe_delete(disk, filename) ==
    [p \in (DOMAIN disk) \ {filename} |-> disk[p]]

\* The body of the innermost loop for one interval, given the disk: the
\* interval's new status, the disk, the bytes added to downloaded_bytes and
\* to discarded_bytes, and the exception raised, if any.
check_interval(interval, disk, r) ==
    LET same == [status |-> interval.status, files |-> disk,
                 downloaded |-> 0, discarded |-> 0, raised |-> "no"]
        filename == interval.filename
        size == disk[filename].size
        st == disk[filename].traces
        deleted == safe_delete(disk, filename)
    IN  IF interval.status # STATUS.NEEDS_DOWNLOADING THEN same
        ELSE IF ~path_exists(disk, filename)
        THEN [same EXCEPT !.status = STATUS.DOWNLOAD_FAILED]
        ELSE IF size = 0
        THEN [same EXCEPT !.status = STATUS.DOWNLOAD_FAILED,
                          !.files = deleted]
        ELSE IF ~disk[filename].readable
        THEN [same EXCEPT !.status = STATUS.DOWNLOAD_FAILED,
                          !.files = deleted, !.discarded = size]
        ELSE IF Len(st) = 0
        THEN [same EXCEPT !.status = STATUS.DOWNLOAD_FAILED,
                          !.files = deleted, !.discarded = size]
        ELSE IF r.reject_channels_with_gaps /\ Len(st) > 1
        \* the log message evaluates len(str), the length of a type
        THEN [same EXCEPT !.raised = "TypeError"]
        ELSE IF r.minimum_length # 0
        \* the deletion is not nested in the test of the duration
        THEN [same EXCEPT !.status = STATUS.DOWNLOAD_REJECTED,
                          !.files = deleted, !.discarded = size]
        ELSE [same EXCEPT !.status = STATUS.DOWNLOADED,
                          !.downloaded = size]

\* The positions <<station, channel, interval>> of the intervals of the
\* stations, in iteration order.
interval_positions(d) ==
    Flatten([s \in 1..Len(d) |->
       Flatten([c \in 1..Len(d[s].channels) |->
          [i \in 1..Len(d[s].channels[c].intervals) |-> <<s, c, i>>]])])

\* The three loops over stations bound to Station objects: acc carries the
\* stations, the disk, the two byte counts and the outcome so far.
RECURSIVE check_loop(_, _, _)
check_loop(todo, acc, r) ==
    IF todo = <<>> THEN acc
    ELSE LET s == Head(todo)[1]
             c == Head(todo)[2]
             i == Head(todo)[3]
             step == check_interval(acc.stations[s].channels[c].intervals[i],
                                    acc.files, r)
         IN IF step.raised # "no"
            THEN [acc EXCEPT !.outcome = Raise(step.raised)]
            ELSE check_loop(Tail(todo),
                   [acc EXCEPT
                      !.stations[s].channels[c].intervals[i].status = step.status,
                      !.files = step.files,
                      !.outcome = Return(PyTuple(
                          <<@.value.items[1] + step.downloaded,
                            @.value.items[2] + step.discarded>>))],
                   r)

\* check_downloaded_data over the Station objects and without the test of
\* the status: every interval whose file is missing becomes DOWNLOAD_FAILED.
check_downloaded_data_unguarded(d, disk, r) ==
    [outcome |-> Return(PyTuple(<<0, 0>>)),
     stations |->
        [s \in 1..Len(d) |-> [d[s] EXCEPT !.channels =
            [c \in 1..Len(d[s].channels) |->
                [d[s].channels[c] EXCEPT !.intervals =
                    [i \in 1..Len(d[s].channels[c].intervals) |->
                        LET interval == d[s].channels[c].intervals[i] IN
                        IF path_exists(disk, interval.filename) THEN interval
                        ELSE [interval EXCEPT
                                 !.status = STATUS.DOWNLOAD_FAILED]]]]]],
     files |-> disk]

\* check_downloaded_data deleting the file of every interval, whatever its
\* status.
check_downloaded_data_sweeping(d, disk, r) ==
    [outcome |-> Return(PyTuple(<<0, 0>>)),
     stations |-> d,
     files |-> [q \in (DOMAIN disk) \
                  {all_intervals(d)[i].interval.filename :
                      i \in 1..Len(all_intervals(d))} |-> disk[q]]]

\* The method: its outcome and the stations and disk it leaves.  The outer
\* loop binds sta to what iterating self.stations yields.  That is a key of
\* the dict, so with at least one station the first evaluation of
\* sta.channels raises AttributeError ('tuple' object has no attribute
\* 'channels') before any interval is looked at; without a station the loop
\* body never runs and (0, 0) is returned.
check_downloaded_data(d, disk, r) ==
    LET start == [outcome |-> Return(PyTuple(<<0, 0>>)), stations |-> d,
                  files |-> disk]
        stas == dict_iter(d)
    IN  IF stas = <<>> THEN start
        ELSE IF Head(stas).type # "Station"
        THEN [start EXCEPT !.outcome = Raise("AttributeError")]
        ELSE check_loop(interval_positions(d), start, r)

\* download_mseed after pool.map has returned: every chunk has ended, the QC
\* runs, and what it raises leaves download_mseed.  Had it returned, the
\* method would log, recount and fall off its end without a return value.
DownloadMseedCheck ==
    /\ pc = "downloading"
    /\ Finished = 1..Len(chunks)
    /\ LET qc == check_downloaded_data(stations, files, restrictions) IN
         /\ stations' = qc.stations
         /\ files' = qc.files
         /\ checked' = qc.outcome
         /\ result' = IF qc.outcome.kind = "raise" THEN qc.outcome
                      ELSE Return(PyNone)
    /\ pc' = "idle"
    /\ chunks' = <<>>
    /\ chunk_state' = <<>>
    /\ pool_size' = 0
    /\ chunk_size' = 0
    /\ last' = "_check_downloaded_data"
    /\ station_answer' = NoAnswer
    /\ listed_ids' = <<>>
    /\ UNCHANGED outside_helper
    /\ UNCHANGED <<client, restrictions, domain, mseed_storage, served,
                   is_availability_reliable, dirs, n_downloads>>

\* _check_downloaded_data called on its own.
CheckDownloadedData ==
    /\ pc = "idle"
    /\ LET qc == check_downloaded_data(stations, files, restrictions) IN
         /\ stations' = qc.stations
         /\ files' = qc.files
         /\ checked' = qc.outcome
         /\ result' = qc.outcome
    /\ last' = "_check_downloaded_data"
    /\ station_answer' = NoAnswer
    /\ listed_ids' = <<>>
    /\ UNCHANGED outside_helper
    /\ UNCHANGED <<client, restrictions, domain, mseed_storage, served,
                   is_availability_reliable, dirs, pc, chunks, chunk_state,
                   pool_size, chunk_size, n_downloads>>

-----------------------------------------------------------------------------
(* ClientDownloadHelper.discard_stations                                    *)

\* The ids a caller lists: stations the inventories have and one they have
\* not, up to two of them, also the same one twice.
StationIds == {<<"XX", "S1">>, <<"XX", "S2">>, <<"XX", "S7">>}
StationIdLists ==
    {<<>>} \cup {<<a>> : a \in StationIds}
           \cup {<<a, b>> : a \in StationIds, b \in StationIds}

\* del self.stations[station_id]
dict_del(d, key) ==
    IF \E i \in 1..Len(d) : StationKey(d[i]) = key
    THEN [raised |-> "no",
          dict |-> SelectSeq(d, LAMBDA sta : StationKey(sta) # key)]
    ELSE [raised |-> "KeyError", dict |-> d]

\* discard_stations without its except clause.
RECURSIVE discard_stations_uncaught(_, _)
discard_stations_uncaught(d, station_ids) ==
    IF station_ids = <<>> THEN [stations |-> d, outcome |-> Return(PyNone)]
    ELSE LET deleted == dict_del(d, Head(station_ids)) IN
         IF deleted.raised = "KeyError"
         THEN [stations |-> d, outcome |-> Raise("KeyError")]
         ELSE discard_stations_uncaught(deleted.dict, Tail(station_ids))

\* discard_stations(station_ids): the stations left and the outcome.
RECURSIVE discard_stations(_, _)
discard_stations(d, station_ids) ==
    IF station_ids = <<>> THEN [stations |-> d, outcome |-> Return(PyNone)]
    ELSE LET deleted == dict_del(d, Head(station_ids)) IN
         IF deleted.raised = "KeyError"
         THEN discard_stations(d, Tail(station_ids))
         ELSE discard_stations(deleted.dict, Tail(station_ids))

DiscardStations ==
    /\ pc = "idle"
    /\ \E ids \in StationIdLists :
         LET done == discard_stations(stations, ids) IN
         /\ stations' = done.stations
         /\ result' = done.outcome
         /\ listed_ids' = ids
    /\ last' = "discard_stations"
    /\ station_answer' = NoAnswer
    /\ UNCHANGED outside_helper
    /\ UNCHANGED <<client, restrictions, domain, mseed_storage, served,
                   checked, is_availability_reliable, files, dirs, pc, chunks,
                   chunk_state, pool_size, chunk_size, n_downloads>>

-----------------------------------------------------------------------------
(* obspy/clients/fdsn/routing/combined_routing_client.py                    *)
(*                                                                          *)
(* A URL is a pair <<scheme, rest>>, "http://dc1/fdsnws" being              *)
(* <<"http", "dc1/fdsnws">> and a URL without a scheme <<"", rest>>.  A     *)
(* dict is a sequence of <<key, value>> pairs with distinct keys in         *)
(* insertion order.                                                         *)

\* The routing classes a CombinedRoutingClient is made of.
RouterClasses == {"FederatorRoutingClient", "EIDAWSRoutingClient"}

\* The lists self.routers can be.
RouterLists ==
    UNION {[1..n -> RouterClasses] : n \in 1..MaxRouters}

\* The three public methods, each calling _combine_data with its name.
Methods == {"get_waveforms_bulk", "get_stations", "get_stations_bulk"}

\* The data_type a router passes to _download_parallel for a method.
DataType(method) ==
    IF method = "get_waveforms_bulk" THEN "waveform" ELSE "station"

\* data_type in method_name, for the strings above.
IsSubstring(data_type, method) ==
    \/ data_type = "waveform" /\ method = "get_waveforms_bulk"
    \/ data_type = "station" /\ method \in {"get_stations", "get_stations_bulk"}

\* The data centre URLs the routers answer with.
Endpoints ==
    {<<"http", "dc1/fdsnws">>, <<"https", "dc1/fdsnws">>, <<"", "dc1/fdsnws">>,
     <<"http", "dc2/fdsnws">>}

\* The bulk request stored for a data centre, and the options of a call.
Parameters == {"XX YY0", "XX *"}
Options == {"level=channel", "level=response"}

\* The dicts split a router can resolve: at most two data centres, a router
\* naming a data centre once.
Splits ==
    {<<>>}
    \cup {<< <<k, v>> >> : k \in Endpoints, v \in Parameters}
    \cup {d \in {<< <<k1, v1>>, <<k2, v2>> >> :
                       k1 \in Endpoints, k2 \in Endpoints,
                       v1 \in Parameters, v2 \in Parameters} :
             d[1][1][2] # d[2][1][2]}

\* routing_client._strip_protocol(url): the URL without its scheme.
strip_protocol(url) == <<"", url[2]>>

\* What getattr(router, method_name)(...) does under the patch: it raises
\* FDSNNoDataException, it raises another exception, it returns without a
\* call of _download_parallel, or it calls _download_parallel(split,
\* data_type=..., **options) once; call_args is that call's (args, kwargs),
\* args starting with the router itself because of autospec.
RouterAnswers(method) ==
    {[kind |-> "nodata"], [kind |-> "error"], [kind |-> "nocall"]}
    \cup {[kind |-> "called",
           call_args |-> << <<"self", split>>,
                            [data_type |-> DataType(method), options |-> o] >>]
            : split \in Splits, o \in Options}

\* mocked_method with its test negated: the router's own _download_parallel
\* for the data type of the method, nothing otherwise.
mocked_method_inverted(call_args, method) ==
    IF ~IsSubstring(call_args[2].data_type, method) THEN <<>>
    ELSE << [by |-> "router", split |-> call_args[1][2],
             kwargs |-> call_args[2]] >>

\* mocked_method that always hands the call to the router's own
\* _download_parallel.
mocked_method_passthrough(call_args, method) ==
    << [by |-> "router", split |-> call_args[1][2], kwargs |-> call_args[2]] >>

\* mocked_method: nothing for the data type of the method, otherwise the
\* router's own _download_parallel.
mocked_method(call_args, method) ==
    IF IsSubstring(call_args[2].data_type, method) THEN <<>>
    ELSE << [by |-> "router", split |-> call_args[1][2],
             kwargs |-> call_args[2]] >>

\* key in dict, dict[key] = value and value in list.
HasKey(dict, key) == \E i \in 1..Len(dict) : dict[i][1] = key

SetItem(dict, key, value) ==
    IF HasKey(dict, key)
    THEN [i \in 1..Len(dict) |->
             IF dict[i][1] = key THEN <<key, value>> ELSE dict[i]]
    ELSE Append(dict, <<key, value>>)

InList(list, x) == \E i \in 1..Len(list) : list[i] = x

\* The list data_centers after a route with this key was taken.
claimed(list, key) == Append(list, key)

\* for key, value in split.items(): the locals after the loop.
RECURSIVE merge_split(_, _, _)
merge_split(items, acc, call_args) ==
    IF items = <<>> THEN acc
    ELSE LET key == Head(items)[1]
             value == Head(items)[2]
             url == strip_protocol(key)
         IN IF InList(acc.data_centers, url)
            THEN merge_split(Tail(items), acc, call_args)
            ELSE merge_split(Tail(items),
                   [routes |-> SetItem(acc.routes, key, value),
                    data_centers |-> claimed(acc.data_centers, key),
                    kwargs |-> call_args[2]],
                   call_args)

\* The local _kwargs before its first assignment.
Unbound == [unbound |-> TRUE]
NoCall == [kind |-> "none"]
Pending == [kind |-> "pending"]

\* CombinedRoutingClient.__init__: no call of _combine_data yet.
RoutingInit ==
    /\ routers \in RouterLists
    /\ method_name = "None"
    /\ router = 0
    /\ routes = <<>>
    /\ data_centers = <<>>
    /\ transfer_kwargs = Unbound
    /\ transfers = <<>>
    /\ answers = <<>>
    /\ combined = NoCall

\* No CombinedRoutingClient is in use.
RoutingOff ==
    /\ routers = <<>>
    /\ method_name = "None"
    /\ router = 0
    /\ routes = <<>>
    /\ data_centers = <<>>
    /\ transfer_kwargs = Unbound
    /\ transfers = <<>>
    /\ answers = <<>>
    /\ combined = NoCall

\* _combine_data(method_name, ...) up to the loop over the routers.
CombineData ==
    /\ router = 0
    /\ routers # <<>>
    /\ method_name' \in Methods
    /\ router' = 1
    /\ routes' = <<>>
    /\ data_centers' = <<>>
    /\ transfer_kwargs' = Unbound
    /\ transfers' = <<>>
    /\ answers' = <<>>
    /\ combined' = Pending
    /\ UNCHANGED routers
    /\ UNCHANGED outside_routing

\* One pass of the loop over self.routers.
RouteWith ==
    /\ router \in 1..Len(routers)
    /\ \E answer \in RouterAnswers(method_name) :
         /\ answers' = Append(answers, answer)
         /\ CASE answer.kind = "nodata" ->
                /\ router' = router + 1
                /\ UNCHANGED <<routes, data_centers, transfer_kwargs,
                               transfers, combined>>
           [] answer.kind = "error" ->
                /\ router' = 0
                /\ combined' = Raise("FDSNException")
                /\ UNCHANGED <<routes, data_centers, transfer_kwargs,
                               transfers>>
           [] answer.kind = "nocall" ->
                /\ router' = router + 1
                /\ UNCHANGED <<routes, data_centers, transfer_kwargs,
                               transfers, combined>>
           [] answer.kind = "called" ->
                LET call_args == answer.call_args
                    merged == merge_split(call_args[1][2],
                                 [routes |-> routes,
                                  data_centers |-> data_centers,
                                  kwargs |-> transfer_kwargs],
                                 call_args)
                IN /\ transfers' =
                        transfers \o mocked_method(call_args, method_name)
                   /\ router' = router + 1
                   /\ IF Len(call_args[1]) < 2
                      THEN UNCHANGED <<routes, data_centers, transfer_kwargs>>
                      ELSE /\ routes' = merged.routes
                           /\ data_centers' = merged.data_centers
                           /\ transfer_kwargs' = merged.kwargs
                   /\ UNCHANGED combined
    /\ UNCHANGED <<routers, method_name>>
    /\ UNCHANGED outside_routing

\* CombineFinish without the test for an empty routes dict.
CombineFinish_unchecked ==
    /\ router = Len(routers) + 1
    /\ router' = 0
    /\ transfers' = Append(transfers,
                        [by |-> "self", split |-> routes,
                         kwargs |-> transfer_kwargs])
    /\ combined' = Return([type |-> "data", split |-> routes])
    /\ UNCHANGED <<routers, method_name, routes, data_centers, transfer_kwargs,
                   answers>>
    /\ UNCHANGED outside_routing

\* _combine_data after the loop: no route raises FDSNNoDataException,
\* otherwise the routes are downloaded by the client itself.
CombineFinish ==
    /\ router = Len(routers) + 1
    /\ router' = 0
    /\ IF routes = <<>>
       THEN /\ combined' = Raise("FDSNNoDataException")
            /\ UNCHANGED transfers
       ELSE /\ transfers' = Append(transfers,
                               [by |-> "self", split |-> routes,
                                kwargs |-> transfer_kwargs])
            /\ combined' = Return([type |-> "data", split |-> routes])
    /\ UNCHANGED <<routers, method_name, routes, data_centers, transfer_kwargs,
                   answers>>
    /\ UNCHANGED outside_routing

-----------------------------------------------------------------------------
(* The TimeInterval objects of get_availability by identity.                *)
(*                                                                          *)
(* An object is a position of the sequence heap; a list of objects is the   *)
(* sequence of their positions.  held is self.stations with each channel's  *)
(* list intervals given by the identities of its objects.                   *)

\* The list intervals handed on as it is: the same objects.
deepcopy_shared(ids, h) == [heap |-> h, ids |-> ids]

\* copy.deepcopy(intervals): new objects with the values of the old ones.
deepcopy(ids, h) ==
    [heap |-> h \o [i \in 1..Len(ids) |-> h[ids[i]]],
     ids |-> [i \in 1..Len(ids) |-> Len(h) + i]]

\* channels.append(Channel(..., intervals=copy.deepcopy(intervals))) for the
\* channels of one station: the heap and the channels with their objects.
RECURSIVE copy_channels(_, _, _, _)
copy_channels(todo, intervals, h, acc) ==
    IF todo = <<>> THEN [heap |-> h, channels |-> acc]
    ELSE LET copy == deepcopy(intervals, h) IN
         copy_channels(Tail(todo), intervals, copy.heap,
            Append(acc, [location |-> Head(todo).location,
                         channel |-> Head(todo).channel,
                         intervals |-> copy.ids]))

\* The stations a call stores, each with the objects of its channels.
RECURSIVE copy_stations(_, _, _, _)
copy_stations(todo, intervals, h, d) ==
    IF todo = <<>> THEN [heap |-> h, held |-> d]
    ELSE LET made == copy_channels(Head(todo).channels, intervals, h, <<>>) IN
         copy_stations(Tail(todo), intervals, made.heap,
            DictSet(d, [network |-> Head(todo).network,
                        station |-> Head(todo).station,
                        channels |-> made.channels]))

\* No TimeInterval object has been made.
ObjectsInit ==
    /\ heap = <<>>
    /\ held = <<>>

\* get_availability answered with an inventory: the list intervals is made
\* from the restrictions, and every channel stored gets its copy.
StoreIntervals ==
    /\ \E i \in Inventories :
         LET requested == requested_intervals(restrictions)
             intervals == [k \in 1..Len(requested) |-> Len(heap) + k]
             written == store_stations(<<>>, inventory_stations(i),
                           restrictions, domain,
                           availability_arguments(client).args)
             made == copy_stations(written, intervals, heap \o requested, held)
         IN /\ ~availability_arguments(client).raises
            /\ Len(made.heap) <= MaxObjects
            /\ heap' = made.heap
            /\ held' = made.held
    /\ UNCHANGED outside_objects

\* Station.prepare_mseed_download for one interval of one channel: the file
\* name and the status are assigned to the object of the list.
AssignInterval(s, c, k) ==
    /\ LET id == held[s].channels[c].intervals[k]
           filename == get_mseed_filename(mseed_storage, held[s].network,
                          held[s].station, held[s].channels[c].location,
                          held[s].channels[c].channel, heap[id].start,
                          heap[id].end)
       IN heap' = [heap EXCEPT ![id].filename = filename,
                               ![id].status = interval_status(filename, files)]
    /\ UNCHANGED held
    /\ UNCHANGED outside_objects

-----------------------------------------------------------------------------
(* obspy.core.provenance: the SEIS-PROV document of a trace.                *)
(*                                                                          *)
(* provenance is doc._records, entity_id the identifier of the entity of    *)
(* the trace as it is now, stats the start and the end of the trace.        *)

NS_PREFIX == "seis_prov"

\* The windows a trace can have, and the twelve-digit parts of a uuid.
Times == {10, 20, 30, 40}
Windows == {w \in [starttime : Times, endtime : Times] :
               w.endtime - w.starttime >= 20}
UUIDs == {"0a", "0b"}

\* The records the definition file names, with label and two letter code.
definition ==
    [software_agent |-> [label |-> "Software Agent", two_letter_code |-> "sa"],
     waveform_trace |-> [label |-> "Waveform Trace", two_letter_code |-> "wf"],
     detrend |-> [label |-> "Detrend", two_letter_code |-> "dt"],
     taper |-> [label |-> "Taper", two_letter_code |-> "tp"],
     bandpass_filter |->
        [label |-> "Bandpass Filter", two_letter_code |-> "bp"],
     cut |-> [label |-> "Cut", two_letter_code |-> "ct"],
     pad |-> [label |-> "Pad", two_letter_code |-> "pd"]]

get_definition_for_record(record_type, name) == definition[name]

\* "%05i" % step and int() of it.
Pow10(n) == IF n = 0 THEN 1 ELSE IF n = 1 THEN 10 ELSE IF n = 2 THEN 100
            ELSE IF n = 3 THEN 1000 ELSE 10000
format_05i(n) == [i \in 1..5 |-> (n \div Pow10(5 - i)) % 10]
RECURSIVE int(_)
int(digits) ==
    IF digits = <<>> THEN 0
    ELSE 10 * int(SubSeq(digits, 1, Len(digits) - 1)) + digits[Len(digits)]

\* "%s:sp%05i_%s_%s": the local part is the step, the code and the uuid.
get_identifier(record_type, name, step, uuid) ==
    [prefix |-> NS_PREFIX,
     step |-> format_05i(step),
     code |-> get_definition_for_record(record_type, name).two_letter_code,
     uuid |-> uuid]

\* identifier.localpart.split("_")[0].strip("sp") as a number.
step_of(identifier) == int(identifier.step)

\* The identifier of a relation: None.
NoIdentifier == [prefix |-> "None"]

\* The records of prov.model the module makes.
ProvAgent(identifier, attributes) ==
    [type |-> "agent", identifier |-> identifier, label |-> attributes.label,
     attributes |-> attributes]
ProvEntity(identifier, attributes) ==
    [type |-> "entity", identifier |-> identifier, label |-> attributes.label,
     attributes |-> attributes]
ProvActivity(identifier, attributes) ==
    [type |-> "activity", identifier |-> identifier,
     label |-> attributes.label, attributes |-> attributes]
ProvAssociation(activity, agent) ==
    [type |-> "association", identifier |-> NoIdentifier, label |-> "None",
     activity |-> activity.identifier, agent |-> agent.identifier]
ProvUsage(activity, entity) ==
    [type |-> "usage", identifier |-> NoIdentifier, label |-> "None",
     activity |-> activity.identifier, entity |-> entity.identifier]
ProvGeneration(entity, activity) ==
    [type |-> "generation", identifier |-> NoIdentifier, label |-> "None",
     entity |-> entity.identifier, activity |-> activity.identifier]

obspy_version == "1.0.0"

\* The test of the loop of _get_obspy_agent on the attributes of one agent.
is_obspy_agent(agent) ==
    LET attribs == agent.attributes IN
    IF "type" \notin DOMAIN attribs THEN FALSE
    ELSE IF attribs.type # "SoftwareAgent" THEN FALSE
    ELSE IF "label" \notin DOMAIN attribs THEN FALSE
    ELSE IF attribs.label # "ObsPy" THEN FALSE
    ELSE IF "software_name" \notin DOMAIN attribs THEN FALSE
    ELSE IF attribs.software_name # "ObsPy" THEN FALSE
    ELSE IF "software_version" \notin DOMAIN attribs THEN FALSE
    ELSE attribs.software_version = obspy_version

\* doc.agent(identifier, other_attributes=...) of _get_obspy_agent.
new_obspy_agent(doc, uuid) ==
    LET obspy_agent ==
          ProvAgent(get_identifier("agent", "software_agent", 0, uuid),
             [type |-> "SoftwareAgent", label |-> "ObsPy",
              software_name |-> "ObsPy", software_version |-> obspy_version,
              website |-> "http://www.obspy.org",
              doi |-> "10.1785/gssrl.81.3.530"])
    IN [doc |-> Append(doc, obspy_agent), agent |-> obspy_agent]

\* An agent made for every activity, whatever the document holds.
get_obspy_agent_uncached(doc, uuid) == new_obspy_agent(doc, uuid)

\* _get_obspy_agent(doc): the first agent of the document that is ObsPy of
\* this version, or a new one.
get_obspy_agent(doc, uuid) ==
    LET agents == SelectSeq(doc, LAMBDA r : r.type = "agent")
        found == SelectSeq(agents, is_obspy_agent)
    IN IF found # <<>> THEN [doc |-> doc, agent |-> Head(found)]
       ELSE new_obspy_agent(doc, uuid)

\* trace2prov_entity(doc, trace, step): the record it adds.
trace2prov_entity(trace, step, uuid) ==
    ProvEntity(get_identifier("entity", "waveform_trace", step, uuid),
       [label |-> "Waveform Trace", type |-> "seis_prov:waveform_trace",
        start_time |-> trace.starttime,
        number_of_samples |-> trace.endtime - trace.starttime + 1])

\* create_prov_doc_for_trace(trace): the document and the entity's identifier.
create_prov_doc_for_trace(trace, uuid) ==
    LET entity == trace2prov_entity(trace, 1, uuid)
    IN [doc |-> <<entity>>, id |-> entity.identifier]

Max(a, b) == IF a > b THEN a ELSE b

\* The items an extractor returns: name, attributes and state.
Item(name, attributes, state) ==
    [name |-> name, attributes |-> attributes, state |-> state]

\* The cut step with the bounds of the state after the trim.
cut_step_to_after(info, state_before, state_after) ==
    IF \/ state_before.starttime < state_after.starttime
       \/ state_before.endtime > state_after.endtime
    THEN LET state == [starttime |-> state_after.starttime,
                       endtime |-> state_after.endtime]
         IN <<Item("cut", [new_start_time |-> state.starttime,
                           new_end_time |-> state.endtime], state)>>
    ELSE <<>>

cut_step(info, state_before, state_after) ==
    IF \/ state_before.starttime < state_after.starttime
       \/ state_before.endtime > state_after.endtime
    THEN LET state ==
               [starttime |-> Max(state_after.starttime,
                                  state_before.starttime),
                endtime |-> Min(state_after.endtime, state_before.endtime)]
         IN <<Item("cut", [new_start_time |-> state.starttime,
                           new_end_time |-> state.endtime], state)>>
    ELSE <<>>

pad_step(info, state_before, state_after) ==
    IF \/ state_before.starttime > state_after.starttime
       \/ state_before.endtime < state_after.endtime
    THEN LET state == [starttime |-> state_after.starttime,
                       endtime |-> state_after.endtime]
         IN <<Item("pad", [new_start_time |-> state.starttime,
                           new_end_time |-> state.endtime,
                           fill_value |-> info.arguments.fill_value], state)>>
    ELSE <<>>

\* The two steps of a trim appended the other way round.
extract_trim_pad_first(info, state_before, state_after) ==
    pad_step(info, state_before, state_after)
    \o cut_step(info, state_before, state_after)

\* _extract_trim
extract_trim(info, state_before, state_after) ==
    cut_step(info, state_before, state_after)
    \o pad_step(info, state_before, state_after)

DetrendMethods == {"simple", "linear", "demean", "constant"}

\* _extract_detrend, for the methods without options
extract_detrend(info, state_before, state_after) ==
    LET method == info.arguments.type IN
    IF method \notin DetrendMethods \cup {"polynomial", "spline"}
    THEN Raise("NotImplementedError")
    ELSE Return(<<Item("detrend",
            [detrending_method |->
                IF method = "constant" THEN "demean"
                ELSE IF method = "linear" THEN "linear fit"
                ELSE method],
            state_after)>>)

\* _extract_taper
extract_taper(info, state_before, state_after) ==
    Return(<<Item("taper",
        [window_type |-> info.arguments.type,
         taper_width |-> info.arguments.max_percentage,
         side |-> info.arguments.side], state_after)>>)

\* int() of a frequency, which is held in tenths of a Hertz.
int_of_float(tenths) == tenths \div 10

\* _extract_filter
extract_filter(info, state_before, state_after) ==
    LET options == info.arguments.options IN
    IF info.arguments.type = "bandpass"
    THEN Return(<<Item("bandpass_filter",
            [filter_type |-> "Butterworth",
             lower_corner_frequency |-> options.freqmin,
             upper_corner_frequency |-> options.freqmax,
             filter_order |-> IF "corners" \in DOMAIN options
                              THEN int_of_float(options.freqmin)
                              ELSE 4],
            state_after)>>)
    ELSE Raise("NotImplementedError")

\* The functions of FCT_MAP that are modelled.
FCT_MAP == {"detrend", "taper", "filter", "trim"}

extract(info, state_before, state_after) ==
    CASE info.function_name = "detrend" ->
            extract_detrend(info, state_before, state_after)
      [] info.function_name = "taper" ->
            extract_taper(info, state_before, state_after)
      [] info.function_name = "filter" ->
            extract_filter(info, state_before, state_after)
      [] info.function_name = "trim" ->
            Return(extract_trim(info, state_before, state_after))

\* The attributes of an activity: label and type, then those of the item
\* under the prefix of the namespace.
activity_attributes(item) ==
    [label |-> get_definition_for_record("activity", item.name).label,
     type |-> item.name,
     seis_prov |-> item.attributes]

\* The loop of _create_activites over the items: the records of the document
\* and the entity made last.  uuids are the draws of uuid4 still to come.
RECURSIVE create_loop(_, _, _, _, _, _)
create_loop(items, doc, step, previous_entity, state_after, uuids) ==
    LET item == Head(items)
        activity == ProvActivity(
            get_identifier("activity", item.name, step, uuids[1]),
            activity_attributes(item))
        agent == get_obspy_agent(Append(doc, activity), uuids[2])
        entity == trace2prov_entity(state_after, step + 1, uuids[3])
        records == agent.doc \o <<ProvAssociation(activity, agent.agent),
                                  entity,
                                  ProvUsage(activity, previous_entity),
                                  ProvGeneration(entity, activity)>>
    IN IF Len(items) = 1 THEN [doc |-> records, entity |-> entity]
       ELSE create_loop(Tail(items), records, step + 2, previous_entity,
                        state_after, SubSeq(uuids, 4, Len(uuids)))

\* _create_activites without the return for an operation without items: the
\* name entity of its last line is not bound.
create_activites_unbound(doc, info, previous_entity, state_before, state_after, uuids) ==
    IF info.function_name \notin FCT_MAP
    THEN [doc |-> doc, outcome |-> Raise("NotImplementedError")]
    ELSE LET step == step_of(previous_entity.identifier) + 1
             items == extract(info, state_before, state_after)
         IN IF items.kind = "raise" THEN [doc |-> doc, outcome |-> items]
            ELSE IF items.value = <<>>
            THEN [doc |-> doc, outcome |-> Raise("UnboundLocalError")]
            ELSE LET made == create_loop(items.value, doc, step,
                                previous_entity, state_after, uuids)
                 IN [doc |-> made.doc,
                     outcome |-> Return(made.entity.identifier)]

\* _create_activites(doc, info, previous_entity, state_before, state_after)
create_activites(doc, info, previous_entity, state_before, state_after, uuids) ==
    IF info.function_name \notin FCT_MAP
    THEN [doc |-> doc, outcome |-> Raise("NotImplementedError")]
    ELSE LET step == step_of(previous_entity.identifier) + 1
             items == extract(info, state_before, state_after)
         IN IF items.kind = "raise" THEN [doc |-> doc, outcome |-> items]
            ELSE IF items.value = <<>>
            THEN [doc |-> doc, outcome |-> Return(previous_entity.identifier)]
            ELSE LET made == create_loop(items.value, doc, step,
                                previous_entity, state_after, uuids)
                 IN [doc |-> made.doc,
                     outcome |-> Return(made.entity.identifier)]

\* add_processing_step_to_prov(doc, prev_id, state_before, state_after, info)
add_processing_step_to_prov(doc, prev_id, state_before, state_after, info, uuids) ==
    LET rec == SelectSeq(doc, LAMBDA r : r.identifier = prev_id)
    IN IF rec = <<>> THEN [doc |-> doc, outcome |-> Raise("ValueError")]
       ELSE create_activites(doc, info, rec[1], state_before, state_after,
                             uuids)

\* What the methods of a trace hand over as info.
DetrendInfos ==
    {[function_name |-> "detrend", arguments |-> [type |-> t]] :
        t \in {"linear", "bogus"}}
TaperInfo ==
    [function_name |-> "taper",
     arguments |-> [type |-> "hann", max_percentage |-> "0.05",
                    side |-> "both"]]
\* Filters with corner frequencies in tenths of a Hertz, with and without
\* the option corners.
FilterInfos ==
    {[function_name |-> "filter",
      arguments |-> [type |-> t, options |-> o]] :
        t \in {"bandpass", "lowpass"},
        o \in [freqmin : {1, 20}, freqmax : {50}]
              \cup [freqmin : {1, 20}, freqmax : {50}, corners : {2}]}
TrimInfo ==
    [function_name |-> "trim", arguments |-> [fill_value |-> "1.0"]]
ResampleInfo ==
    [function_name |-> "resample", arguments |-> [sampling_rate |-> "10.0"]]

\* The draws of uuid4 of one call: one for the activity, the agent and the
\* entity of every item of the call.
Draws(info, state_before, state_after) ==
    LET items == IF info.function_name \in FCT_MAP
                 THEN extract(info, state_before, state_after)
                 ELSE Raise("NotImplementedError")
    IN IF items.kind = "raise" THEN {<<>>}
       ELSE [1..(3 * Len(items.value)) -> UUIDs]

\* No processing step has been applied.
NoArguments == [type |-> "None"]

\* A trace with its first provenance document.
ProvInit ==
    /\ stats \in Windows
    /\ \E uuid \in UUIDs :
         LET made == create_prov_doc_for_trace(stats, uuid) IN
         /\ provenance = made.doc
         /\ entity_id = made.id
    /\ operation = "None"
    /\ arguments = NoArguments
    /\ recorded = Return(entity_id)
    /\ n_steps = 0

\* No trace is tracked.
ProvOff ==
    /\ stats = [starttime |-> 10, endtime |-> 40]
    /\ provenance = <<>>
    /\ entity_id = NoIdentifier
    /\ operation = "None"
    /\ arguments = NoArguments
    /\ recorded = Return(NoIdentifier)
    /\ n_steps = 0

\* A method of the trace that takes it from the state stats to state_after
\* and records the step.
Process(info, state_after) ==
    /\ n_steps < MaxProvSteps
    /\ \E uuids \in Draws(info, stats, state_after) :
         LET done == add_processing_step_to_prov(provenance, entity_id,
                         stats, state_after, info, uuids)
         IN /\ provenance' = done.doc
            /\ recorded' = done.outcome
            /\ entity_id' = IF done.outcome.kind = "return"
                            THEN done.outcome.value ELSE entity_id
    /\ stats' = state_after
    /\ operation' = info.function_name
    /\ arguments' = info.arguments
    /\ n_steps' = n_steps + 1
    /\ UNCHANGED outside_prov

Detrend == \E info \in DetrendInfos : Process(info, stats)
Taper == Process(TaperInfo, stats)
Trim == \E state_after \in Windows : Process(TrimInfo, state_after)
Resample == Process(ResampleInfo, stats)
Filter == \E info \in FilterInfos : Process(info, stats)

-----------------------------------------------------------------------------
(* The helper after construction, and its behaviours.                       *)

Init ==
    /\ client \in Clients
    /\ restrictions \in RestrictionsSet
    /\ domain \in Domains
    /\ mseed_storage \in Storages
    /\ served \in Contents
    /\ files \in InitialDisks
    /\ <<client.name, domain.needs_filtering, Len(restrictions.intervals)>>
          \in ClientSetups
    /\ <<restrictions.reject_channels_with_gaps, restrictions.minimum_length,
         served>> \in DataSetups
    /\ <<mseed_storage, files = <<>> >> \in StorageSetups
    /\ stations = <<>>
    /\ is_availability_reliable = "None"
    /\ dirs = {dirname(p) : p \in DOMAIN files}
    /\ pc = "idle"
    /\ chunks = <<>>
    /\ chunk_state = <<>>
    /\ pool_size = 0
    /\ chunk_size = 0
    /\ checked = Return(PyNone)
    /\ result = Return(PyNone)
    /\ last = "__init__"
    /\ n_downloads = 0
    /\ station_answer = NoAnswer
    /\ listed_ids = <<>>
    /\ RoutingOff
    /\ ObjectsInit
    /\ ProvOff

Next ==
    \/ GetAvailability
    \/ PrepareMseedDownload
    \/ DownloadMseed
    \/ \E c \in 1..Len(chunks) : StartFetch(c)
    \/ \E c \in 1..Len(chunks) : FinishFetch(c)
    \/ DownloadMseedCheck
    \/ CheckDownloadedData

Spec == Init /\ [][Next]_vars

\* A helper that stores to a template and is served good files, and that is
\* asked to download up to MaxResumeDownloads times: the same request issued
\* again on what an earlier pass left on disk.
ResumeInit ==
    /\ Init
    /\ mseed_storage = "template"
    /\ served = GoodFile
    /\ restrictions.minimum_length = 0

ResumeDownloadMseed == download_mseed(MaxResumeDownloads)

ResumeNext ==
    \/ GetAvailability
    \/ PrepareMseedDownload
    \/ ResumeDownloadMseed
    \/ \E c \in 1..Len(chunks) : StartFetch(c)
    \/ \E c \in 1..Len(chunks) : FinishFetch(c)
    \/ DownloadMseedCheck
    \/ CheckDownloadedData

ResumeSpec == ResumeInit /\ [][ResumeNext]_vars

\* The helper asked for the availability only, any number of times.
AvailabilityNext == GetAvailability

AvailabilitySpec == Init /\ [][AvailabilityNext]_vars

\* The helper asked for the availability, to prepare the download and to
\* discard stations.
DiscardNext ==
    \/ GetAvailability
    \/ PrepareMseedDownload
    \/ DiscardStations

DiscardSpec == Init /\ [][DiscardNext]_vars

\* The TimeInterval objects of a helper: get_availability makes them,
\* prepare_mseed_download assigns to them one at a time.
OwnershipNext ==
    \/ StoreIntervals
    \/ \E s \in 1..Len(held) :
          \E c \in 1..Len(held[s].channels) :
             \E k \in 1..Len(held[s].channels[c].intervals) :
                AssignInterval(s, c, k)

OwnershipSpec == Init /\ [][OwnershipNext]_vars

\* No download helper is in use: one that is never called.
HelperOff ==
    /\ client = CHOOSE c \in Clients : c.name = "local"
    /\ restrictions = CHOOSE r \in RestrictionsSet :
          /\ ~r.reject_channels_with_gaps
          /\ r.minimum_length = 0
          /\ Len(r.intervals) = 1
    /\ domain = CHOOSE d \in Domains : ~d.needs_filtering
    /\ mseed_storage = "template"
    /\ served = GoodFile
    /\ files = <<>>
    /\ stations = <<>>
    /\ is_availability_reliable = "None"
    /\ dirs = {}
    /\ pc = "idle"
    /\ chunks = <<>>
    /\ chunk_state = <<>>
    /\ pool_size = 0
    /\ chunk_size = 0
    /\ checked = Return(PyNone)
    /\ result = Return(PyNone)
    /\ last = "__init__"
    /\ n_downloads = 0
    /\ station_answer = NoAnswer
    /\ listed_ids = <<>>

\* A CombinedRoutingClient and its calls.
CombineInit == RoutingInit /\ HelperOff /\ ObjectsInit /\ ProvOff

\* A trace, the processing steps applied to it and their provenance.
ProvenanceInit == ProvInit /\ HelperOff /\ RoutingOff /\ ObjectsInit

ProvenanceNext ==
    \/ Detrend
    \/ Taper
    \/ Trim
    \/ Resample

ProvenanceSpec == ProvenanceInit /\ [][ProvenanceNext]_vars

\* A trace and the filters applied to it.
FilterNext == Filter

FilterSpec == ProvenanceInit /\ [][FilterNext]_vars

CombineNext ==
    \/ CombineData
    \/ RouteWith
    \/ CombineFinish

CombineSpec == CombineInit /\ [][CombineNext]_vars

-----------------------------------------------------------------------------
(* Properties.                                                              *)

\* The intervals of the helper's stations, in iteration order.
Intervals == all_intervals(stations)

\* The interval at position p = <<station, channel, interval>> of the
\* stations d, whether d has such an interval, and the positions d has.
At(d, p) == d[p[1]].channels[p[2]].intervals[p[3]]

Has(d, p) ==
    /\ p[1] <= Len(d)
    /\ p[2] <= Len(d[p[1]].channels)
    /\ p[3] <= Len(d[p[1]].channels[p[2]].intervals)

Positions(d) == Range(interval_positions(d))

TerminalStatuses ==
    {STATUS.IGNORE, STATUS.EXISTS, STATUS.DOWNLOADED, STATUS.DOWNLOAD_FAILED,
     STATUS.DOWNLOAD_REJECTED}

DownloadOutcomes ==
    {STATUS.DOWNLOADED, STATUS.DOWNLOAD_FAILED, STATUS.DOWNLOAD_REJECTED}

HasStatus(st) == \E i \in 1..Len(Intervals) : Intervals[i].interval.status = st

\* The steps of prepare_mseed_download, download_mseed and
\* _check_downloaded_data.
PassSteps ==
    {"prepare_mseed_download", "download_mseed", "star_download_mseed",
     "_check_downloaded_data"}

C2_OutcomeOnlyFromNeedsDownloading ==
    [][ stations' # stations =>
          \A p \in Positions(stations') :
             LET after == At(stations', p).status IN
             (/\ after \in DownloadOutcomes
              /\ (Has(stations, p) => At(stations, p).status # after))
             => /\ Has(stations, p)
                /\ At(stations, p).status = STATUS.NEEDS_DOWNLOADING ]_vars

\* The QC has run over intervals that are IGNORE, EXISTS and
\* NEEDS_DOWNLOADING.
C2_Witness ==
    /\ last = "_check_downloaded_data"
    /\ HasStatus(STATUS.IGNORE)
    /\ HasStatus(STATUS.EXISTS)
    /\ HasStatus(STATUS.NEEDS_DOWNLOADING)

\* The file name the storage resolves for an interval.
Resolved(e) ==
    get_mseed_filename(mseed_storage, e.sta.network, e.sta.station,
                       e.cha.location, e.cha.channel, e.interval.start,
                       e.interval.end)

\* C3: after prepare_mseed_download every interval is IGNORE iff the storage
\* answered True; otherwise EXISTS iff the resolved file exists; otherwise
\* NEEDS_DOWNLOADING with the resolved file name and an existing parent
\* directory; and the call has not failed.
C3_PrepareAssignsStatus ==
    last = "prepare_mseed_download" =>
      /\ result = Return(PyNone)
      /\ \A i \in 1..Len(Intervals) :
           LET e == Intervals[i]
               resolved == Resolved(e)
           IN /\ (e.interval.status = STATUS.IGNORE) <=> (resolved = TrueFile)
              /\ resolved # TrueFile =>
                   ((e.interval.status = STATUS.EXISTS)
                       <=> path_exists(files, resolved))
              /\ (resolved # TrueFile /\ ~path_exists(files, resolved)) =>
                   /\ e.interval.status = STATUS.NEEDS_DOWNLOADING
                   /\ e.interval.filename = resolved
                   /\ dirname(resolved) \in dirs

\* prepare_mseed_download has just assigned each of the three statuses.
C3_Witness ==
    /\ last = "prepare_mseed_download"
    /\ HasStatus(STATUS.IGNORE)
    /\ HasStatus(STATUS.EXISTS)
    /\ HasStatus(STATUS.NEEDS_DOWNLOADING)

\* C4: a call of prepare_mseed_download that directly follows another one
\* leaves every file name and status as the first call set them.
C4_PrepareIsIdempotent ==
    [][ (last = "prepare_mseed_download" /\ last' = "prepare_mseed_download")
          => stations' = stations ]_vars

\* prepare_mseed_download has run after a download pass, has found a file
\* that pass wrote and a file still missing, and can be called again.
C4_Witness ==
    /\ last = "prepare_mseed_download"
    /\ pc = "idle"
    /\ \E i \in 1..Len(Intervals) :
          /\ Intervals[i].interval.status = STATUS.EXISTS
          /\ files[Intervals[i].interval.filename] # GoodFile
    /\ HasStatus(STATUS.NEEDS_DOWNLOADING)

\* The estimated samples of the entries of a chunk, and whether their
\* estimated size is above the chunk size of the call.
RECURSIVE ChunkSamples(_)
ChunkSamples(chunk) ==
    IF chunk = <<>> THEN <<0, 1>>
    ELSE LET entry == Head(chunk)
             sr == estimated_sampling_rate([channel |-> entry[4]])
         IN RatAdd(<<sr[1] * (entry[6] - entry[5]), sr[2]>>,
                   ChunkSamples(Tail(chunk)))

ExceedsChunkSize(chunk) ==
    ChunkSamples(chunk)[1] * 4
        > chunk_size * 3 * 1024 * 1024 * ChunkSamples(chunk)[2]

Front(seq) == SubSeq(seq, 1, Len(seq) - 1)

\* C5 as claimed: every chunk has an estimated size of at most the chunk
\* size, except a chunk of a single interval.
C5_ChunkWithinThreshold ==
    pc = "downloading" =>
      \A c \in 1..Len(chunks) :
         ExceedsChunkSize(chunks[c]) => Len(chunks[c]) = 1

\* C5 as amended: the estimated size of every chunk without its last
\* interval is below the chunk size, so that a chunk reaches or exceeds the
\* chunk size only with the interval that closes it.
C5_ChunkBelowThresholdBeforeLast ==
    pc = "downloading" =>
      \A c \in 1..Len(chunks) :
         ~reaches_chunk_size(ChunkSamples(Front(chunks[c])), chunk_size)

\* A planned chunk of several intervals is larger than the chunk size.
C5_Witness ==
    /\ pc = "downloading"
    /\ \E c \in 1..Len(chunks) :
          Len(chunks[c]) >= 2 /\ ExceedsChunkSize(chunks[c])

\* The entries of the intervals that need downloading, in iteration order.
NeededEntries ==
    LET needed == SelectSeq(Intervals, LAMBDA e :
                     e.interval.status = STATUS.NEEDS_DOWNLOADING)
    IN [i \in 1..Len(needed) |-> chunk_entry(needed[i])]

\* C6: the chunks, one after the other, are exactly the intervals that need
\* downloading, each once and no other; no chunk is empty, and the call
\* returns without a chunk only when no interval needs downloading.
C6_ChunksAreTheNeededIntervals ==
    /\ pc = "downloading" =>
         /\ Flatten(chunks) = NeededEntries
         /\ \A c \in 1..Len(chunks) : chunks[c] # <<>>
    /\ (pc = "idle" /\ last = "download_mseed") => NeededEntries = <<>>

\* The plan has a trailing chunk below the chunk size and an interval that
\* alone is above it, while another interval is not to be downloaded.
C6_Witness ==
    /\ pc = "downloading"
    /\ Len(chunks) >= 2
    /\ ~reaches_chunk_size(ChunkSamples(chunks[Len(chunks)]), chunk_size)
    /\ \E c \in 1..Len(chunks) : \E k \in 1..Len(chunks[c]) :
          ExceedsChunkSize(<<chunks[c][k]>>)
    /\ \E i \in 1..Len(Intervals) :
          Intervals[i].interval.status # STATUS.NEEDS_DOWNLOADING

\* What the QC is to find for an interval e, given the disk: its file parses
\* to at least one trace, it has more than one trace in gap-free mode, its
\* traces are shorter than the configured fraction of the interval.
FileParses(e) ==
    /\ path_exists(files, e.filename)
    /\ files[e.filename].size > 0
    /\ files[e.filename].readable
    /\ Len(files[e.filename].traces) >= 1

HasGaps(e) ==
    restrictions.reject_channels_with_gaps /\ Len(files[e.filename].traces) > 1

IsTooShort(e) ==
    /\ restrictions.minimum_length # 0
    /\ SeqSum(files[e.filename].traces) * 100
          < restrictions.minimum_length * (e.end - e.start)

\* The bytes of the non-empty files of the intervals to download.
NeededBytes ==
    SeqSum([i \in 1..Len(Intervals) |->
       IF /\ Intervals[i].interval.status = STATUS.NEEDS_DOWNLOADING
          /\ path_exists(files, Intervals[i].interval.filename)
       THEN files[Intervals[i].interval.filename].size ELSE 0])

\* A step is a run of _check_downloaded_data.
IsCheck == last' = "_check_downloaded_data"

Returned(outcome) == outcome.kind = "return"
Downloaded(outcome) == outcome.value.items[1]
Discarded(outcome) == outcome.value.items[2]

\* C7 as claimed: the QC turns an interval to download whose file parses, has
\* no gap in gap-free mode and is long enough into DOWNLOADED, keeps the file
\* and counts its size as downloaded and not as discarded.
C7_GoodFileIsDownloaded ==
    [][ IsCheck =>
          \A p \in Positions(stations) :
             LET e == At(stations, p) IN
             (/\ e.status = STATUS.NEEDS_DOWNLOADING
              /\ FileParses(e) /\ ~HasGaps(e) /\ ~IsTooShort(e))
             => /\ At(stations', p).status = STATUS.DOWNLOADED
                /\ path_exists(files', e.filename)
                /\ Returned(checked')
                /\ Downloaded(checked') >= files[e.filename].size
                /\ Discarded(checked') <= NeededBytes - files[e.filename].size
      ]_vars

\* C8 as claimed: with a minimum length configured, the QC turns an interval
\* to download whose traces are shorter than the fraction of the interval
\* into DOWNLOAD_REJECTED, deletes the file and counts its size as discarded
\* and not as downloaded.
C8_ShortFileIsRejected ==
    [][ IsCheck =>
          \A p \in Positions(stations) :
             LET e == At(stations, p) IN
             (/\ e.status = STATUS.NEEDS_DOWNLOADING
              /\ FileParses(e) /\ IsTooShort(e))
             => /\ At(stations', p).status = STATUS.DOWNLOAD_REJECTED
                /\ ~path_exists(files', e.filename)
                /\ Returned(checked')
                /\ Discarded(checked') >= files[e.filename].size
                /\ Downloaded(checked') <= NeededBytes - files[e.filename].size
      ]_vars

\* C9 as claimed: in gap-free mode the QC turns an interval to download whose
\* file parses to more than one trace into DOWNLOAD_REJECTED, deletes the
\* file, counts its size as discarded, and goes on to the end of the pass.
C9_GappyFileIsRejected ==
    [][ IsCheck =>
          \A p \in Positions(stations) :
             LET e == At(stations, p) IN
             (/\ e.status = STATUS.NEEDS_DOWNLOADING
              /\ FileParses(e) /\ HasGaps(e))
             => /\ At(stations', p).status = STATUS.DOWNLOAD_REJECTED
                /\ ~path_exists(files', e.filename)
                /\ Returned(checked')
                /\ Discarded(checked') >= files[e.filename].size
                /\ ~\E q \in Positions(stations') :
                      At(stations', q).status = STATUS.NEEDS_DOWNLOADING
      ]_vars

\* C10 as claimed: the QC turns an interval to download whose file is
\* missing or has zero bytes into DOWNLOAD_FAILED, deletes a zero-byte file,
\* and counts nothing for it in either total.
C10_MissingOrEmptyFileFails ==
    [][ IsCheck =>
          \A p \in Positions(stations) :
             LET e == At(stations, p) IN
             (/\ e.status = STATUS.NEEDS_DOWNLOADING
              /\ (path_exists(files, e.filename) => files[e.filename].size = 0))
             => /\ At(stations', p).status = STATUS.DOWNLOAD_FAILED
                /\ ~path_exists(files', e.filename)
                /\ Returned(checked')
                /\ Downloaded(checked') + Discarded(checked') <= NeededBytes
      ]_vars

\* The file of interval e is not empty and obspy.read raises on it or reads
\* it to a stream without a trace.
IsFaulty(e) ==
    /\ path_exists(files, e.filename)
    /\ files[e.filename].size > 0
    /\ (~files[e.filename].readable \/ Len(files[e.filename].traces) = 0)

\* C11 as claimed: the QC turns an interval to download whose non-empty file
\* cannot be parsed, or parses to no trace, into DOWNLOAD_FAILED, deletes the
\* file, counts its size as discarded and not as downloaded, and returns.
C11_FaultyFileFails ==
    [][ IsCheck =>
          \A p \in Positions(stations) :
             LET e == At(stations, p) IN
             (e.status = STATUS.NEEDS_DOWNLOADING /\ IsFaulty(e))
             => /\ At(stations', p).status = STATUS.DOWNLOAD_FAILED
                /\ ~path_exists(files', e.filename)
                /\ Returned(checked')
                /\ Discarded(checked') >= files[e.filename].size
                /\ Downloaded(checked') <= NeededBytes - files[e.filename].size
      ]_vars

\* A step is the end of the thread pool's map inside download_mseed, with
\* the QC that follows it.
IsDownloadCheck == pc = "downloading" /\ IsCheck

\* C12 as claimed: when the fetch of a chunk has failed (star_download_mseed
\* returned an empty list for it), every other chunk has been fetched, the
\* QC runs over all intervals, so that none is left to download, and
\* download_mseed raises nothing.
C12_FailedChunkIsContained ==
    [][ (IsDownloadCheck /\ \E c \in 1..Len(chunks) : chunk_state[c] = "failed")
        => /\ \A c \in 1..Len(chunks) : chunk_state[c] \in {"done", "failed"}
           /\ Returned(checked')
           /\ \A p \in Positions(stations') :
                 At(stations', p).status # STATUS.NEEDS_DOWNLOADING
           /\ Returned(result')
      ]_vars

\* A step in which download_mseed ends: without a chunk, or after the QC.
DownloadEnds ==
    \/ pc = "idle" /\ last' = "download_mseed" /\ pc' = "idle"
    \/ IsDownloadCheck

\* C13 as claimed: download_mseed returns the pair of the downloaded and the
\* discarded bytes the QC computed, and (0, 0) when no interval needs
\* downloading.
C13_DownloadReturnsByteCounts ==
    [][ DownloadEnds =>
          /\ Returned(result')
          /\ result'.value.type = "tuple"
          /\ IF IsDownloadCheck
             THEN result' = checked'
             ELSE result'.value = PyTuple(<<0, 0>>)
      ]_vars

\* Some chunk of the running download_mseed has not ended its fetch.
FetchPending ==
    /\ pc = "downloading"
    /\ \E c \in 1..Len(chunks) : chunk_state[c] \in {"pending", "running"}

\* C14: while a chunk of download_mseed has not ended its fetch, no step is
\* a QC, no status changes and no file is removed; and when a fetch starts
\* the chunks are the complete plan, which no longer changes.
C14_QcAfterParallelPhase ==
    [][ FetchPending =>
          /\ ~IsCheck
          /\ stations' = stations
          /\ DOMAIN files \subseteq DOMAIN files'
          /\ chunks' = chunks
          /\ chunks = plan_chunks(stations, chunk_size)
      ]_vars

\* One chunk has ended its fetch and left a file, another is being fetched,
\* and the interval of the file is still to be classified.
C14_Witness ==
    /\ pc = "downloading"
    /\ \E c \in 1..Len(chunks) : chunk_state[c] = "running"
    /\ \E c \in 1..Len(chunks) :
          /\ chunk_state[c] \in {"done", "failed"}
          /\ \E k \in 1..Len(chunks[c]) : path_exists(files, chunks[c][k][7])
    /\ \A i \in 1..Len(Intervals) :
          Intervals[i].interval.status \notin DownloadOutcomes

\* The destination paths of the intervals of the chunks, in the order of the
\* chunks.
DispatchedPaths == [k \in 1..Len(Flatten(chunks)) |-> Flatten(chunks)[k][7]]

\* C15 as claimed: the destination paths of the intervals handed to the
\* threads of one download are pairwise distinct.
C15_DispatchedPathsAreDistinct ==
    pc = "downloading" =>
       \A j, k \in 1..Len(DispatchedPaths) :
          DispatchedPaths[j] = DispatchedPaths[k] => j = k

\* The destination paths of the entries of chunk c.
ChunkPaths(c) == {chunks[c][k][7] : k \in 1..Len(chunks[c])}

\* C16 as claimed: when download_mseed ends, every interval of a chunk whose
\* fetch failed is DOWNLOAD_FAILED, whether or not the fetch wrote its file
\* before it failed.
C16_FailedChunkFailsWhole ==
    [][ IsDownloadCheck =>
          \A c \in 1..Len(chunks) : chunk_state[c] = "failed" =>
             \A p \in Positions(stations) :
                (/\ At(stations, p).status = STATUS.NEEDS_DOWNLOADING
                 /\ At(stations, p).filename \in ChunkPaths(c))
                => At(stations', p).status = STATUS.DOWNLOAD_FAILED
      ]_vars

\* The statuses of an interval that needs no download.
SatisfiedStatuses == {STATUS.EXISTS, STATUS.DOWNLOADED}

\* The data files the helper was constructed on.
InitialFiles == UNION {DOMAIN disk : disk \in InitialDisks}

\* C17: the file of an interval that is EXISTS or DOWNLOADED is on disk and
\* no step removes it; a fresh get_availability leaves the files alone; the
\* prepare_mseed_download that follows marks every interval whose file is
\* on disk EXISTS; and download_mseed puts no such interval into a chunk.
C17_ResumeSkipsSatisfied ==
    [][ /\ \A p \in Positions(stations) :
             At(stations, p).status \in SatisfiedStatuses
             => /\ path_exists(files, At(stations, p).filename)
                /\ path_exists(files', At(stations, p).filename)
        /\ last' = "get_availability" => files' = files
        /\ last' = "prepare_mseed_download" =>
             \A p \in Positions(stations') :
                LET e == At(stations', p) IN
                (e.filename # TrueFile /\ path_exists(files, e.filename))
                => e.status = STATUS.EXISTS
        /\ last' = "download_mseed" =>
             \A p \in Positions(stations) :
                At(stations, p).status \in SatisfiedStatuses
                => \A c \in 1..Len(chunks') : \A k \in 1..Len(chunks'[c]) :
                      chunks'[c][k][7] # At(stations, p).filename
      ]_vars

\* The request has been issued again: the second download_mseed runs on an
\* interval that is EXISTS with a file the first pass fetched, and fetches
\* another interval only.
C17_Witness ==
    /\ n_downloads = 2
    /\ pc = "downloading"
    /\ \E i \in 1..Len(Intervals) :
          /\ Intervals[i].interval.status = STATUS.EXISTS
          /\ Intervals[i].interval.filename \notin InitialFiles
          /\ \A c \in 1..Len(chunks) :
                Intervals[i].interval.filename \notin ChunkPaths(c)

-----------------------------------------------------------------------------
(* Properties of the CombinedRoutingClient.                                 *)

\* The routes dict holds two keys for one data centre.
HasDuplicateEndpoint(dict) ==
    \E i, j \in 1..Len(dict) :
       i # j /\ strip_protocol(dict[i][1]) = strip_protocol(dict[j][1])

\* C18 as claimed: the routes _combine_data downloads hold at most one route
\* per URL without its scheme.
C18_OneRoutePerEndpoint ==
    \A t \in 1..Len(transfers) :
       transfers[t].by = "self" => ~HasDuplicateEndpoint(transfers[t].split)

\* C19 as claimed: inside a call, what a router adds never changes a route
\* an earlier router was given, and never adds a route for a data centre
\* that has one.
C19_FirstClaimWins ==
    [][ router # 0 =>
          /\ Len(routes') >= Len(routes)
          /\ \A i \in 1..Len(routes) : routes'[i] = routes[i]
          /\ \A j \in (Len(routes) + 1)..Len(routes') :
                \A i \in 1..Len(routes) :
                   strip_protocol(routes'[j][1]) # strip_protocol(routes[i][1])
      ]_vars

\* C20: a call that ends its loop without a route raises
\* FDSNNoDataException and has downloaded nothing, and no call returns
\* after downloading an empty routes dict.
C20_NoRouteRaisesNoData ==
    [][ /\ (router = Len(routers) + 1 /\ routes = <<>>)
           => /\ combined' = Raise("FDSNNoDataException")
              /\ transfers' = <<>>
        /\ IF combined'.kind = "return"
           THEN combined'.value.split # <<>>
           ELSE TRUE
      ]_vars

\* Two routers were asked, none gave a route, and the call has ended.
C20_Witness ==
    /\ Len(routers) = 2
    /\ router = 0
    /\ routes = <<>>
    /\ combined = Raise("FDSNNoDataException")
    /\ transfers = <<>>

\* The call of _combine_data has ended.
CallEnded == router = 0 /\ combined.kind \in {"return", "raise"}

\* The dict split of an answer, empty for an answer without a call.
OfferedSplit(answer) ==
    IF answer.kind = "called" THEN answer.call_args[1][2] ELSE <<>>

\* The URLs without scheme of the keys of a dict.
EndpointsOf(dict) == {strip_protocol(dict[i][1]) : i \in 1..Len(dict)}

Dc1 == <<"http", "dc1/fdsnws">>

\* The routers before the last signalled no data and the last resolved the
\* single route http://dc1/fdsnws.
NoDataThenDc1 ==
    /\ Len(answers) = Len(routers)
    /\ Len(answers) >= 2
    /\ \A i \in 1..(Len(answers) - 1) : answers[i].kind = "nodata"
    /\ answers[Len(answers)].kind = "called"
    /\ Len(OfferedSplit(answers[Len(answers)])) = 1
    /\ OfferedSplit(answers[Len(answers)])[1][1] = Dc1

\* C21: when the routers before the last signal no data and the last
\* resolves one route to http://dc1/fdsnws, the call returns and has made
\* exactly one real transfer, of that one route with the options of the
\* last router; the data centre of the route is dc1/fdsnws.
C21_NoDataProviderIsSkipped ==
    (CallEnded /\ NoDataThenDc1) =>
       /\ combined.kind = "return"
       /\ Len(transfers) = 1
       /\ transfers[1].by = "self"
       /\ transfers[1].split = OfferedSplit(answers[Len(answers)])
       /\ transfers[1].kwargs = answers[Len(answers)].call_args[2]
       /\ EndpointsOf(transfers[1].split) = {<<"", "dc1/fdsnws">>}

C21_Witness ==
    /\ CallEnded
    /\ NoDataThenDc1
    /\ Len(transfers) = 1

\* Whether answer i offers a data centre none of the answers before it
\* offered, and the last such answer.
Contributes(i) ==
    EndpointsOf(OfferedSplit(answers[i]))
       \ UNION {EndpointsOf(OfferedSplit(answers[j])) : j \in 1..(i - 1)} # {}

LastContributor ==
    CHOOSE i \in 1..Len(answers) :
       Contributes(i) /\ \A j \in (i + 1)..Len(answers) : ~Contributes(j)

\* C22 as claimed: a call that returns has made one transfer, over the data
\* centres the routers offered, with the options of the last router that
\* offered a data centre no router before it had offered.
C22_OptionsOfLastContributor ==
    (CallEnded /\ combined.kind = "return") =>
       /\ Len(transfers) = 1
       /\ EndpointsOf(transfers[1].split)
             = UNION {EndpointsOf(OfferedSplit(answers[i])) :
                         i \in 1..Len(answers)}
       /\ transfers[1].kwargs = answers[LastContributor].call_args[2]

\* C23 as claimed: a router that raises an exception other than
\* FDSNNoDataException does not end the call; the loop goes on to the next
\* router and the call raises only when it ends without a route.
C23_ServiceErrorIsIsolated ==
    [][ /\ (answers' # answers /\ answers' # <<>>
            /\ answers'[Len(answers')].kind = "error")
           => /\ router' = router + 1
              /\ combined' = combined
        /\ combined'.kind = "raise" => routes' = <<>>
      ]_vars

-----------------------------------------------------------------------------
(* Properties of get_availability.                                          *)

\* A step is a get_availability whose query raised one of utils.ERRORS, or
\* one whose query returned an inventory.
QueryFailed ==
    /\ last' = "get_availability"
    /\ station_answer' # NoAnswer
    /\ station_answer'.error

QueryAnswered ==
    /\ last' = "get_availability"
    /\ station_answer' # NoAnswer
    /\ ~station_answer'.error

\* C24: a get_availability whose query fails, with the no-data message or
\* with another one, returns None and leaves self.stations as it was, so
\* without a station when it had none.
C24_FailedQueryLeavesStations ==
    [][ QueryFailed =>
          /\ result' = Return(PyNone)
          /\ stations' = stations
      ]_vars

\* The query of a helper without stations has failed for another reason
\* than no data.
C24_Witness ==
    /\ last = "get_availability"
    /\ station_answer # NoAnswer
    /\ station_answer.error
    /\ station_answer.message = "Service temporarily unavailable"
    /\ stations = <<>>
    /\ result = Return(PyNone)

\* The stations the step stored, and the channels the inventory of the step
\* lists for station sta with the codes of channel cha.
StoredNow == {i \in 1..Len(stations') : stations'[i] \notin Range(stations)}

ListedAs(sta, cha) ==
    LET listed == inventory_stations(station_answer'.inv) IN
    UNION {{listed[i].station.channels[j] :
               j \in {k \in 1..Len(listed[i].station.channels) :
                        /\ listed[i].station.channels[k].location_code
                              = cha.location
                        /\ listed[i].station.channels[k].code = cha.channel}} :
           i \in {k \in 1..Len(listed) :
                    /\ listed[k].network = sta.network
                    /\ listed[k].station.code = sta.station}}

EpochCovers(c) ==
    c.start_date <= restrictions.starttime /\ c.end_date >= restrictions.endtime

AvailabilityCovers(c) ==
    /\ c.data_availability.present
    /\ c.data_availability.start <= restrictions.starttime
    /\ c.data_availability.end >= restrictions.endtime

AsksAvailability ==
    "includeavailability" \in availability_arguments(client).args

\* C25: every channel a get_availability stores is listed by the inventory
\* with an epoch that covers the requested window and, when the query asked
\* for includeavailability, with an availability that covers it too.
C25_StoredChannelsCoverWindow ==
    [][ QueryAnswered =>
          \A i \in StoredNow :
             \A k \in 1..Len(stations'[i].channels) :
                \E c \in ListedAs(stations'[i], stations'[i].channels[k]) :
                   /\ EpochCovers(c)
                   /\ AsksAvailability => AvailabilityCovers(c)
      ]_vars

\* A query with includeavailability was answered with the inventory that
\* lists a channel of a late epoch and a channel without availability, and
\* a station was stored.
C25_Witness ==
    /\ last = "get_availability"
    /\ station_answer # NoAnswer
    /\ ~station_answer.error
    /\ station_answer.inv = InventoryA
    /\ AsksAvailability
    /\ stations # <<>>

\* The tier of a code in a priority list: the position of the first pattern
\* that matches it, 0 when none does.
Tier(code, priorities) ==
    IF \E i \in 1..Len(priorities) : code \in priorities[i]
    THEN CHOOSE i \in 1..Len(priorities) :
            /\ code \in priorities[i]
            /\ \A j \in 1..(i - 1) : code \notin priorities[j]
    ELSE 0

\* The least tier above 0 of a set of tiers, 0 when there is none.
BestTier(tiers) ==
    IF tiers \ {0} = {} THEN 0
    ELSE CHOOSE t \in tiers \ {0} : \A u \in tiers \ {0} : t <= u

\* The channels the inventory of the step lists for station sta that pass
\* the tests of the epoch and of the availability, as <<location, channel>>.
PassingCodes(sta) ==
    LET listed == inventory_stations(station_answer'.inv) IN
    UNION {{<<listed[i].station.channels[j].location_code,
              listed[i].station.channels[j].code>> :
               j \in {k \in 1..Len(listed[i].station.channels) :
                  /\ EpochCovers(listed[i].station.channels[k])
                  /\ AsksAvailability =>
                        AvailabilityCovers(listed[i].station.channels[k])}} :
           i \in {k \in 1..Len(listed) :
                    /\ listed[k].network = sta.network
                    /\ listed[k].station.code = sta.station}}

\* Of these, per location the channels of the best channel tier present at
\* that location, and of those the ones of the best location tier present.
BestPerLocation(sta) ==
    {lc \in PassingCodes(sta) :
        /\ Tier(lc[2], restrictions.channel_priorities) # 0
        /\ Tier(lc[2], restrictions.channel_priorities)
             = BestTier({Tier(o[2], restrictions.channel_priorities) :
                           o \in {q \in PassingCodes(sta) : q[1] = lc[1]}})}

BestOfStation(sta) ==
    {lc \in BestPerLocation(sta) :
        /\ Tier(lc[1], restrictions.location_priorities) # 0
        /\ Tier(lc[1], restrictions.location_priorities)
             = BestTier({Tier(o[1], restrictions.location_priorities) :
                           o \in BestPerLocation(sta)})}

\* C27: a station a get_availability stores has at least one channel, and
\* its channels are those of the best location tier among the channels that
\* are, at their location, of the best channel tier present there.
C27_PriorityFilters ==
    [][ QueryAnswered =>
          \A i \in StoredNow :
             /\ stations'[i].channels # <<>>
             /\ {<<stations'[i].channels[k].location,
                    stations'[i].channels[k].channel>> :
                     k \in 1..Len(stations'[i].channels)}
                  = BestOfStation(stations'[i])
      ]_vars

\* The inventory listed channels of two channel tiers at one location and
\* channels at locations of two tiers, and the station was stored.
C27_Witness ==
    /\ last = "get_availability"
    /\ station_answer # NoAnswer
    /\ ~station_answer.error
    /\ station_answer.inv = InventoryA
    /\ \E i \in 1..Len(stations) :
          /\ stations[i].station = "S1"
          /\ Len(stations[i].channels) >= 1
          /\ \A k \in 1..Len(stations[i].channels) :
                /\ stations[i].channels[k].location = ""
                /\ stations[i].channels[k].channel \in {BHZ, BHN}

\* The positions <<station, channel, interval>> of the held objects, and the
\* status and file name seen through a position.
HeldPositions ==
    {p \in (1..Len(held)) \X (1..3) \X (1..2) :
        /\ p[2] <= Len(held[p[1]].channels)
        /\ p[3] <= Len(held[p[1]].channels[p[2]].intervals)}

Seen(h, p) ==
    LET o == h[held[p[1]].channels[p[2]].intervals[p[3]]]
    IN <<o.status, o.filename>>

\* C26: the list intervals of every stored channel has one object per
\* requested sub-window, with its bounds; and a step that changes the status
\* or the file name seen through one interval of one channel changes it for
\* no other interval of any channel of any station.
C26_IntervalsAreOwned ==
    [][ /\ \A s \in 1..Len(held') : \A c \in 1..Len(held'[s].channels) :
             LET ids == held'[s].channels[c].intervals IN
             /\ Len(ids) = Len(restrictions.intervals)
             /\ \A k \in 1..Len(ids) :
                   /\ heap'[ids[k]].start = restrictions.intervals[k][1]
                   /\ heap'[ids[k]].end = restrictions.intervals[k][2]
        /\ held' = held =>
             \A p, q \in HeldPositions :
                (p # q /\ Seen(heap', p) # Seen(heap, p))
                => Seen(heap', q) = Seen(heap, q)
      ]_vars

\* One interval of a channel has its status, while an interval of another
\* channel of its station and one of another station have none yet.
C26_Witness ==
    \E p, q, r \in HeldPositions :
       /\ p[1] = q[1] /\ p[2] # q[2]
       /\ r[1] # p[1]
       /\ Seen(heap, p)[1] # STATUS.NONE
       /\ Seen(heap, q)[1] = STATUS.NONE
       /\ Seen(heap, r)[1] = STATUS.NONE

\* The activities of a document in the order recorded, and whether records
\* hold an activity of a label.
Activities(doc) == SelectSeq(doc, LAMBDA r : r.type = "activity")

HasActivity(records, label) ==
    \E i \in 1..Len(records) :
       records[i].type = "activity" /\ records[i].label = label

\* C28: a trim from the window stats to the window stats' records a Cut iff
\* the window shrinks on a side and a Pad iff it grows on a side, nothing
\* when the window stays; a Cut recorded with a Pad is recorded before it and
\* has the smaller step.
C28_TrimRecordsCutAndPad ==
    [][ (operation' = "trim" /\ n_steps' = n_steps + 1) =>
          LET new == SubSeq(provenance', Len(provenance) + 1, Len(provenance'))
          IN /\ HasActivity(new, "Cut") <=>
                   \/ stats.starttime < stats'.starttime
                   \/ stats.endtime > stats'.endtime
             /\ HasActivity(new, "Pad") <=>
                   \/ stats.starttime > stats'.starttime
                   \/ stats.endtime < stats'.endtime
             /\ stats' = stats => provenance' = provenance
             /\ Len(Activities(new)) <= 2
             /\ \A i, j \in 1..Len(new) :
                   (/\ new[i].type = "activity" /\ new[i].label = "Cut"
                    /\ new[j].type = "activity" /\ new[j].label = "Pad")
                   => /\ i < j
                      /\ step_of(new[i].identifier) < step_of(new[j].identifier)
      ]_vars

\* One trim has recorded a Cut and a Pad.
C28_Witness ==
    /\ n_steps = 1
    /\ operation = "trim"
    /\ HasActivity(provenance, "Cut")
    /\ HasActivity(provenance, "Pad")

ObsPyAgents ==
    SelectSeq(provenance, LAMBDA r : r.type = "agent" /\ r.label = "ObsPy")

IsAssociation(r, activity, agent) ==
    IF r.type = "association"
    THEN r.activity = activity.identifier /\ r.agent = agent.identifier
    ELSE FALSE

\* C29: a document with a recorded activity holds exactly one agent ObsPy,
\* and every activity of it is associated with that agent.
C29_OneObsPyAgent ==
    Activities(provenance) # <<>> =>
       /\ Len(ObsPyAgents) = 1
       /\ is_obspy_agent(ObsPyAgents[1])
       /\ \A a \in Range(Activities(provenance)) :
             \E i \in 1..Len(provenance) :
                IsAssociation(provenance[i], a, ObsPyAgents[1])

\* Two processing steps have each recorded an activity.
C29_Witness ==
    /\ n_steps = 2
    /\ HasActivity(provenance, "Detrend")
    /\ HasActivity(provenance, "Taper")

\* The entities an activity generated and used, by the relations recorded.
GeneratedBy(activity) ==
    {r.entity : r \in {x \in Range(provenance) :
        IF x.type = "generation" THEN x.activity = activity.identifier
        ELSE FALSE}}

UsedBy(activity) ==
    {r.entity : r \in {x \in Range(provenance) :
        IF x.type = "usage" THEN x.activity = activity.identifier
        ELSE FALSE}}

\* C30 as claimed: of two activities recorded one after the other, the second
\* uses exactly the entity the first generated.
C30_ActivitiesFormAChain ==
    LET acts == Activities(provenance) IN
    \A i \in 1..(Len(acts) - 1) : UsedBy(acts[i + 1]) = GeneratedBy(acts[i])

\* C31: a trim that leaves the window of the trace as it is records nothing:
\* the document keeps its records, and the identifier returned is that of
\* the entity the trace had.
C31_NoOpRecordsNothing ==
    [][ (operation' = "trim" /\ n_steps' = n_steps + 1 /\ stats' = stats) =>
          /\ provenance' = provenance
          /\ recorded' = Return(entity_id)
          /\ entity_id' = entity_id
      ]_vars

\* A first trim was a no-op: the document holds the first entity only.
C31_Witness ==
    /\ n_steps = 1
    /\ operation = "trim"
    /\ Len(provenance) = 1
    /\ recorded = Return(entity_id)

\* The activities of a label among records.
ActivitiesOf(records, label) ==
    {r \in Range(records) : r.type = "activity" /\ r.label = label}

\* C35: the Cut a trim records carries the intersection of the window before
\* and the window after, the Pad carries the window after and the fill value
\* of the call; the activity a trim records last carries the window after,
\* whether it is the Cut alone, the Pad alone or the Pad after the Cut.
C35_TrimBounds ==
    [][ (operation' = "trim" /\ n_steps' = n_steps + 1) =>
          LET new == SubSeq(provenance', Len(provenance) + 1, Len(provenance'))
              acts == Activities(new)
          IN /\ \A r \in ActivitiesOf(new, "Cut") :
                   /\ r.attributes.seis_prov.new_start_time
                         = Max(stats'.starttime, stats.starttime)
                   /\ r.attributes.seis_prov.new_end_time
                         = Min(stats'.endtime, stats.endtime)
             /\ \A r \in ActivitiesOf(new, "Pad") :
                   /\ r.attributes.seis_prov.new_start_time = stats'.starttime
                   /\ r.attributes.seis_prov.new_end_time = stats'.endtime
                   /\ r.attributes.seis_prov.fill_value
                         = TrimInfo.arguments.fill_value
             /\ acts # <<>> =>
                   LET final == acts[Len(acts)].attributes.seis_prov IN
                   /\ final.new_start_time = stats'.starttime
                   /\ final.new_end_time = stats'.endtime
      ]_vars

\* A trace of the window [20, 40] was trimmed to [10, 30]: the Cut carries
\* [20, 30] and the Pad [10, 30].
C35_Witness ==
    /\ n_steps = 1
    /\ \E c \in ActivitiesOf(provenance, "Cut") :
          /\ c.attributes.seis_prov.new_start_time = 20
          /\ c.attributes.seis_prov.new_end_time = 30
    /\ \E q \in ActivitiesOf(provenance, "Pad") :
          /\ q.attributes.seis_prov.new_start_time = 10
          /\ q.attributes.seis_prov.new_end_time = 30

\* The entities records name as used or as generated by an activity.
UsedIn(records, activity) ==
    {r.entity : r \in {x \in Range(records) :
        IF x.type = "usage" THEN x.activity = activity.identifier
        ELSE FALSE}}

GeneratedIn(records, activity) ==
    {r.entity : r \in {x \in Range(records) :
        IF x.type = "generation" THEN x.activity = activity.identifier
        ELSE FALSE}}

UsersOf(records, entity) ==
    {r.activity : r \in {x \in Range(records) :
        IF x.type = "usage" THEN x.entity = entity ELSE FALSE}}

\* C39 as claimed: when one trim records a Cut and a Pad, the Pad uses the
\* entity the Cut generated, and no entity of the document is used by more
\* than one activity.
C39_PadUsesEntityOfCut ==
    [][ (operation' = "trim" /\ n_steps' = n_steps + 1) =>
          LET new == SubSeq(provenance', Len(provenance) + 1, Len(provenance'))
          IN /\ \A c \in ActivitiesOf(new, "Cut") :
                   \A q \in ActivitiesOf(new, "Pad") :
                      UsedIn(new, q) = GeneratedIn(new, c)
             /\ \A r \in Range(provenance') :
                   r.type = "entity" =>
                      Cardinality(UsersOf(provenance', r.identifier)) <= 1
      ]_vars

\* C40 as claimed: a bandpass filter step records as filter_order the option
\* corners of the call when it is given and 4 when it is not, and as corner
\* frequencies freqmin and freqmax.
C40_FilterOrderIsCorners ==
    [][ (operation' = "filter" /\ n_steps' = n_steps + 1) =>
          LET new == SubSeq(provenance', Len(provenance) + 1, Len(provenance'))
              options == arguments'.options
          IN \A r \in ActivitiesOf(new, "Bandpass Filter") :
                /\ r.attributes.seis_prov.filter_order
                      = IF "corners" \in DOMAIN options
                        THEN options.corners ELSE 4
                /\ r.attributes.seis_prov.lower_corner_frequency
                      = options.freqmin
                /\ r.attributes.seis_prov.upper_corner_frequency
                      = options.freqmax
      ]_vars

\* The routes the routers asked so far resolved.
OfferedRoutes ==
    UNION {Range(OfferedSplit(answers[i])) : i \in 1..Len(answers)}

\* C32: while the routers are asked nothing is transferred; what is kept of
\* every router is routes it resolved; and a call that returns has made one
\* transfer, by the client itself, of the routes kept.
C32_OnlyTheFinalTransfer ==
    /\ \A i \in 1..Len(transfers) : transfers[i].by = "self"
    /\ combined = Pending => transfers = <<>>
    /\ Range(routes) \subseteq OfferedRoutes
    /\ IF combined.kind = "return"
       THEN /\ Len(transfers) = 1
            /\ transfers[1].split = routes
            /\ transfers[1].kwargs.data_type = DataType(method_name)
       ELSE TRUE

\* Two routers resolved routes under the patch and the client transferred
\* once.
C32_Witness ==
    /\ CallEnded
    /\ Len(answers) = 2
    /\ \A i \in 1..2 : answers[i].kind = "called" /\ Contributes(i)
    /\ Len(transfers) = 1

\* C33: the pool of a download has min(threads_per_client, number of
\* chunks) threads and never more fetches running than that; a chunk goes
\* from pending to running and from running to its end, once; the download
\* is left only when every chunk has ended, and its result is not set
\* before; a download_mseed without a chunk starts no pool and no fetch.
C33_PoolIsBounded ==
    [][ /\ pc' = "downloading" =>
             /\ \E t \in ThreadCounts : pool_size' = Min(t, Len(chunks'))
             /\ Cardinality({c \in 1..Len(chunks') :
                                chunk_state'[c] = "running"}) <= pool_size'
        /\ (pc = "downloading" /\ pc' = "downloading") =>
             /\ chunks' = chunks
             /\ result' = result
             /\ \A c \in 1..Len(chunks) :
                   \/ chunk_state'[c] = chunk_state[c]
                   \/ chunk_state[c] = "pending" /\ chunk_state'[c] = "running"
                   \/ /\ chunk_state[c] = "running"
                      /\ chunk_state'[c] \in {"done", "failed"}
        /\ (pc = "downloading" /\ pc' = "idle") => Finished = 1..Len(chunks)
        /\ (pc = "idle" /\ last' = "download_mseed") =>
             IF \E size \in ChunkSizes : plan_chunks(stations, size) # <<>>
             THEN pc' = "downloading" /\ chunks' # <<>>
             ELSE /\ pc' = "idle"
                  /\ pool_size' = 0
                  /\ chunk_state' = <<>>
                  /\ files' = files
      ]_vars

\* A pool of one thread has two chunks or more: one is being fetched and
\* one waits.
C33_Witness ==
    /\ pc = "downloading"
    /\ pool_size = 1
    /\ Len(chunks) >= 2
    /\ Cardinality(Running) = 1
    /\ \E c \in 1..Len(chunks) : chunk_state[c] = "pending"

\* C34: discard_stations returns None, and the stations it leaves are the
\* stations there were without those of a listed id, each as it was.
C34_DiscardRemovesListed ==
    [][ last' = "discard_stations" =>
          /\ result' = Return(PyNone)
          /\ stations' =
                SelectSeq(stations,
                   LAMBDA sta : StationKey(sta) \notin Range(listed_ids'))
      ]_vars

\* A station was listed twice, so that the second id was not present, and
\* another station is left with an interval that has its status.
C34_Witness ==
    /\ last = "discard_stations"
    /\ listed_ids = << <<"XX", "S2">>, <<"XX", "S2">> >>
    /\ Len(stations) = 1
    /\ StationKey(stations[1]) = <<"XX", "S1">>
    /\ \E c \in 1..Len(stations[1].channels) :
          \E i \in 1..Len(stations[1].channels[c].intervals) :
             stations[1].channels[c].intervals[i].status # STATUS.NONE

\* C36 as claimed: after the QC that ends download_mseed no interval is left
\* to download: every interval that was to download is DOWNLOADED,
\* DOWNLOAD_FAILED or DOWNLOAD_REJECTED.
C36_QcClassifiesEveryInterval ==
    [][ IsDownloadCheck =>
          \A p \in Positions(stations) :
             At(stations, p).status = STATUS.NEEDS_DOWNLOADING =>
                /\ Has(stations', p)
                /\ At(stations', p).status \in DownloadOutcomes
      ]_vars

\* C37: a run of the QC leaves an interval that is not to download as it
\* is, status and file name; its file, if there is one, stays on disk with
\* its content; and the totals returned count bytes of files of intervals to
\* download only.
C37_QcLeavesOtherIntervals ==
    [][ IsCheck =>
          /\ \A p \in Positions(stations) :
                LET e == At(stations, p) IN
                e.status # STATUS.NEEDS_DOWNLOADING =>
                   /\ Has(stations', p)
                   /\ At(stations', p) = e
                   /\ path_exists(files, e.filename) =>
                         /\ path_exists(files', e.filename)
                         /\ files'[e.filename] = files[e.filename]
          /\ IF Returned(checked')
             THEN Downloaded(checked') + Discarded(checked') <= NeededBytes
             ELSE TRUE
      ]_vars

\* The QC has run over an interval whose file was there before the download
\* and is there still, and over an interval that was to download.
C37_Witness ==
    /\ last = "_check_downloaded_data"
    /\ \E i, j \in 1..Len(Intervals) :
          /\ Intervals[i].interval.status = STATUS.EXISTS
          /\ path_exists(files, Intervals[i].interval.filename)
          /\ Intervals[j].interval.status = STATUS.NEEDS_DOWNLOADING

\* The bytes of the files of the intervals of d that pass the test.
BytesOf(d, disk, Test(_, _)) ==
    SeqSum([i \in 1..Len(interval_positions(d)) |->
       LET p == interval_positions(d)[i] IN
       IF Test(p, At(d, p)) THEN disk[At(d, p).filename].size ELSE 0])

\* C38 as claimed: a run of the QC returns its totals; of an interval that
\* was to download the file is on disk iff the interval is DOWNLOADED; the
\* downloaded total is the sum of the sizes of the files of the intervals
\* DOWNLOADED, the discarded total that of the non-empty files deleted.
C38_FilesMatchStatuses ==
    [][ IsCheck =>
          /\ Returned(checked')
          /\ \A p \in Positions(stations) :
                At(stations, p).status = STATUS.NEEDS_DOWNLOADING =>
                   /\ Has(stations', p)
                   /\ path_exists(files', At(stations, p).filename)
                         <=> At(stations', p).status = STATUS.DOWNLOADED
          /\ IF Returned(checked')
             THEN /\ Downloaded(checked') =
                       BytesOf(stations, files, LAMBDA p, e :
                          /\ e.status = STATUS.NEEDS_DOWNLOADING
                          /\ At(stations', p).status = STATUS.DOWNLOADED)
                  /\ Discarded(checked') =
                       BytesOf(stations, files, LAMBDA p, e :
                          /\ e.status = STATUS.NEEDS_DOWNLOADING
                          /\ path_exists(files, e.filename)
                          /\ ~path_exists(files', e.filename))
             ELSE TRUE
      ]_vars

====
